---- MODULE Spec2Model ----
(***************************************************************************)
(* A model of parsehealthlog's incremental machinery (src/main.py):        *)
(*   - the health-timeline builder (_build_health_timeline and helpers),   *)
(*   - the change detector (_find_earliest_change),                        *)
(*   - the dependency cache (parse/format_deps_comment,                    *)
(*     _check_needs_regeneration),                                         *)
(*   - the section loop of HealthLogProcessor.run.                         *)
(*                                                                         *)
(* Dates are ISO strings in the code, compared as strings; here they are   *)
(* the integers 1..MaxDate with the same order.  An entry's content is a   *)
(* content id c in 1..MaxContent whose text is c * LenUnit characters      *)
(* long.  A timeline row is the record [date, ep, rel]: the Date column,   *)
(* the number of the EpisodeID column ("ep-NNN") and the number of the     *)
(* RelatedEpisode column (0 when the column is empty).                     *)
(***************************************************************************)
EXTENDS Integers, Sequences, FiniteSets, TLC

\* ------------------------------------------------------------------ bounds
MaxDate == 3
MaxContent == 2
MaxEp == 2
MaxNewRows == 1
LenUnit == 200000
RowChars == 40

Dates == 1..MaxDate
NoDate == 0
Contents == 1..MaxContent

\* ------------------------------------------------------- program constants
CONTEXT_LIMIT == 200000
SYSTEM_PROMPT_TOKENS == 3000
MAX_OUTPUT_TOKENS == 32768
OUTPUT_TOKENS_PER_ENTRY == 60
SAFETY_MARGIN == 10000
CHARS_PER_TOKEN == 4
OUTPUT_BUFFER == 1000
HeaderChars == 42

VARIABLES
    entriesDir,    \* entries/<date>.processed.md: [Dates -> 0..MaxContent], 0 = no file
    timelineFile,  \* health_log.csv: NoFile or [line1, line2, content]
    pc,            \* "idle", "extract" (an Extractor call is in flight), "done"
    bld,           \* the locals of the running _build_health_timeline
    log,           \* what the last build saw and did (history)
    prov,          \* whether timelineFile is as a build saved it, and for which entries
    det,           \* one call of _find_earliest_change: its arguments and result
    cch,           \* one cached artifact, the last staleness check of it
    run,           \* HealthLogProcessor.run's section loop: inputs, artifacts, progress
    bp,            \* one call of _calculate_batch_size: its arguments and result
    val            \* one run of the timeline validator: the rows and the findings

bvars == <<entriesDir, timelineFile, pc, bld, log, prov>>
vars == <<entriesDir, timelineFile, pc, bld, log, prov, det, cch, run, bp, val>>

\* ----------------------------------------------------------------- helpers
Max(S) == CHOOSE x \in S : \A y \in S : y <= x
Min(S) == CHOOSE x \in S : \A y \in S : x <= y

RECURSIVE SortedSeq(_)
SortedSeq(S) == IF S = {} THEN <<>> ELSE <<Min(S)>> \o SortedSeq(S \ {Min(S)})

SeqRange(s) == {s[i] : i \in 1..Len(s)}

\* the mutant of Slice: the slice runs one element further, s[from:from+n+1]
SliceThrough(s, from, n) ==
    LET hi == IF from + n + 1 < Len(s) THEN from + n + 1 ELSE Len(s)
    IN  [i \in 1..(IF hi > from THEN hi - from ELSE 0) |-> s[from + i]]

\* s[from..] with Python's 0-based slice s[from:from+n]
Slice(s, from, n) ==
    LET hi == IF from + n < Len(s) THEN from + n ELSE Len(s)
    IN  [i \in 1..(IF hi > from THEN hi - from ELSE 0) |-> s[from + i]]

\* short_hash / hash_content: a 12-hex-digit SHA-256 prefix; distinct texts of the
\* model get distinct fingerprints.
hash_content(c) == 16 * c + 11

\* ---------------------------------------------------------- timeline text
NoFile == [kind |-> "missing"]

\* _get_empty_timeline: the CSV header line alone
get_empty_timeline ==
    [header |-> <<"Date", "EpisodeID", "Item", "Category", "Event", "Details">>,
     rows |-> <<>>]

\* every "ep-(\d+)" match of a row's text: the EpisodeID column and, when it is
\* not empty, the RelatedEpisode column
RowEpMatches(r) == {r.ep} \cup (IF r.rel # 0 THEN {r.rel} ELSE {})

\* _get_last_episode_num: re.findall(r"ep-(\d+)") over the whole content
get_last_episode_num(content) ==
    LET ms == UNION {RowEpMatches(content.rows[i]) : i \in 1..Len(content.rows)}
    IN  IF ms # {} THEN Max(ms) ELSE 0

\* len(timeline_content)
TimelineLen(content) ==
    (IF content.header # <<>> THEN HeaderChars ELSE 0) + Len(content.rows) * (RowChars + 1)

\* _format_hashes_line: "# HASHES: d1=h1,d2=h2,..." over sorted(entries)
format_hashes_line(ents) ==
    LET ds == SortedSeq({d \in Dates : ents[d] # 0})
    IN  [i \in 1..Len(ds) |-> <<ds[i], hash_content(ents[ds[i]])>>]

\* _parse_hashes_line: the dict of the "date=hash" pairs, a later pair winning;
\* 0 stands for "no such key"
parse_hashes_line(pairs) ==
    [d \in Dates |->
        LET is == {i \in 1..Len(pairs) : pairs[i][1] = d}
        IN  IF is = {} THEN 0 ELSE pairs[Max(is)][2]]

NoHashes == [d \in Dates |-> 0]

\* the mutant of parse_timeline_header: a legacy first line still reads line 2
parse_timeline_header_lenient(f) ==
    IF f.kind = "missing" THEN <<NoDate, 0, NoHashes>>
    ELSE IF f.line1.kind \in {"new", "legacy"}
         THEN <<f.line1.pt, f.line1.lastEp,
                IF f.line2.present THEN parse_hashes_line(f.line2.pairs) ELSE NoHashes>>
    ELSE <<NoDate, 0, NoHashes>>

\* _parse_timeline_header: <<processed_through, last_episode_num, entry_hashes>>
parse_timeline_header(f) ==
    IF f.kind = "missing" THEN <<NoDate, 0, NoHashes>>
    ELSE IF f.line1.kind = "new"
         THEN <<f.line1.pt, f.line1.lastEp,
                IF f.line2.present THEN parse_hashes_line(f.line2.pairs) ELSE NoHashes>>
    ELSE IF f.line1.kind = "legacy"
         THEN <<f.line1.pt, f.line1.lastEp, NoHashes>>
    ELSE <<NoDate, 0, NoHashes>>

\* _read_timeline_content: the text after the leading "#" lines
read_timeline_content(f) == f.content

\* the mutant of save_timeline: the hashes line records only the processed entries
save_timeline_stale_hashes(content, processed_through, ents, last_ep) ==
    [kind |-> "file",
     line1 |-> [kind |-> "new", pt |-> processed_through, lastEp |-> last_ep],
     line2 |-> [present |-> TRUE,
                pairs |-> format_hashes_line([d \in Dates |-> IF d = processed_through
                                                              THEN 0 ELSE ents[d]])],
     content |-> content]

\* _save_timeline: two "#" header lines, then the content
save_timeline(content, processed_through, ents, last_ep) ==
    [kind |-> "file",
     line1 |-> [kind |-> "new", pt |-> processed_through, lastEp |-> last_ep],
     line2 |-> [present |-> TRUE, pairs |-> format_hashes_line(ents)],
     content |-> content]

\* _get_chronological_entries: the dates of the *.processed.md files, ascending
get_chronological_entries(dir) == SortedSeq({d \in Dates : dir[d] # 0})

\* the length of an entry's text
ContentLen(c) == c * LenUnit

\* the mutant of find_earliest_change: a change rolls back to the earliest
\* entry that is still there
find_earliest_change_retained(ents, entry_hashes, processed_through) ==
    LET current_dates == {d \in Dates : ents[d] # 0}
        existing_dates == {d \in Dates : entry_hashes[d] # 0}
        deleted == existing_dates \ current_dates
        modified == {d \in current_dates \cap existing_dates :
                        hash_content(ents[d]) # entry_hashes[d]}
        inserted == {d \in current_dates \ existing_dates :
                        processed_through # NoDate /\ d <= processed_through}
        change_points == deleted \cup modified \cup inserted
    IN  IF change_points # {}
        THEN [kind |-> "rebuild", date |-> Min(current_dates \cup change_points)]
        ELSE IF processed_through # NoDate
                /\ \E d \in current_dates : d > processed_through
             THEN [kind |-> "append", date |-> NoDate]
             ELSE [kind |-> "none", date |-> NoDate]

\* ------------------------------------------------------- change detection
\* the mutant of find_earliest_change: deleted entries are not change points
find_earliest_change_no_delete(ents, entry_hashes, processed_through) ==
    LET current_dates == {d \in Dates : ents[d] # 0}
        existing_dates == {d \in Dates : entry_hashes[d] # 0}
        modified == {d \in current_dates \cap existing_dates :
                        hash_content(ents[d]) # entry_hashes[d]}
        inserted == {d \in current_dates \ existing_dates :
                        processed_through # NoDate /\ d <= processed_through}
        change_points == modified \cup inserted
    IN  IF change_points # {}
        THEN [kind |-> "rebuild", date |-> Min(change_points)]
        ELSE IF processed_through # NoDate
                /\ \E d \in current_dates : d > processed_through
             THEN [kind |-> "append", date |-> NoDate]
             ELSE [kind |-> "none", date |-> NoDate]

\* the mutant of find_earliest_change: the latest change point is returned
find_earliest_change_latest(ents, entry_hashes, processed_through) ==
    LET current_dates == {d \in Dates : ents[d] # 0}
        existing_dates == {d \in Dates : entry_hashes[d] # 0}
        deleted == existing_dates \ current_dates
        modified == {d \in current_dates \cap existing_dates :
                        hash_content(ents[d]) # entry_hashes[d]}
        inserted == {d \in current_dates \ existing_dates :
                        processed_through # NoDate /\ d <= processed_through}
        change_points == deleted \cup modified \cup inserted
    IN  IF change_points # {}
        THEN [kind |-> "rebuild", date |-> Max(change_points)]
        ELSE IF processed_through # NoDate
                /\ \E d \in current_dates : d > processed_through
             THEN [kind |-> "append", date |-> NoDate]
             ELSE [kind |-> "none", date |-> NoDate]

\* _find_earliest_change: a date to rebuild from, "append", or None.
\* ents is the list of (date, content), entry_hashes the stored dict (0: no key).
find_earliest_change(ents, entry_hashes, processed_through) ==
    LET current_dates == {d \in Dates : ents[d] # 0}
        existing_dates == {d \in Dates : entry_hashes[d] # 0}
        \* Case 1: entry deleted
        deleted == existing_dates \ current_dates
        \* Case 2: entry modified
        modified == {d \in current_dates \cap existing_dates :
                        hash_content(ents[d]) # entry_hashes[d]}
        \* Case 3: new entry inserted in the middle
        inserted == {d \in current_dates \ existing_dates :
                        processed_through # NoDate /\ d <= processed_through}
        change_points == deleted \cup modified \cup inserted
    IN  IF change_points # {}
        THEN [kind |-> "rebuild", date |-> Min(change_points)]
        ELSE IF processed_through # NoDate
                /\ \E d \in current_dates : d > processed_through
             THEN [kind |-> "append", date |-> NoDate]
             ELSE [kind |-> "none", date |-> NoDate]

\* the mutant of truncate_timeline_to_date: the cutoff date's rows are kept too
truncate_timeline_inclusive(content, cutoff_date) ==
    LET kept == SelectSeq(content.rows, LAMBDA r : r.date <= cutoff_date)
        eps == {kept[i].ep : i \in 1..Len(kept)}
    IN  <<[header |-> content.header, rows |-> kept],
          IF eps # {} THEN Max(eps) ELSE 0>>

\* _truncate_timeline_to_date: the header line and the rows with Date < cutoff,
\* and the highest first "ep-N" match of a kept row (its EpisodeID column)
truncate_timeline_to_date(content, cutoff_date) ==
    LET kept == SelectSeq(content.rows, LAMBDA r : r.date < cutoff_date)
        eps == {kept[i].ep : i \in 1..Len(kept)}
    IN  <<[header |-> content.header, rows |-> kept],
          IF eps # {} THEN Max(eps) ELSE 0>>

\* ---------------------------------------------------------- batch planning
\* lines 1029-1030
AvailableInputTokens(timeline_size) ==
    CONTEXT_LIMIT - SYSTEM_PROMPT_TOKENS - (timeline_size \div CHARS_PER_TOKEN)
        - MAX_OUTPUT_TOKENS - SAFETY_MARGIN

\* lines 1037-1040: the two tests that leave the loop
BatchBreak(entry_chars, batch_chars, count, available_input_tokens) ==
    \/ batch_chars + entry_chars > available_input_tokens * CHARS_PER_TOKEN
    \/ (count + 1) * OUTPUT_TOKENS_PER_ENTRY > MAX_OUTPUT_TOKENS - OUTPUT_BUFFER

\* the mutant of BatchResult: the count as it is
BatchResultNoFloor(count) == count

\* line 1046: max(1, count)
BatchResult(count) == IF count > 1 THEN count ELSE 1

\* the for loop of lines 1034-1043
RECURSIVE BatchWalk(_, _, _, _, _)
BatchWalk(lens, i, batch_chars, count, available_input_tokens) ==
    IF i > Len(lens) THEN count
    ELSE IF BatchBreak(lens[i], batch_chars, count, available_input_tokens) THEN count
    ELSE BatchWalk(lens, i + 1, batch_chars + lens[i], count + 1, available_input_tokens)

\* _calculate_batch_size over the lengths of the remaining entries' texts
calculate_batch_size(lens, timeline_size) ==
    BatchResult(BatchWalk(lens, 1, 0, 0, AvailableInputTokens(timeline_size)))

\* ------------------------------------------------------------ the Extractor
\* The Extractor (the LLM behind _process_timeline_batch) is external: it fails,
\* or returns up to MaxNewRows rows.  A row is dated with an entry of the batch
\* and continues the oldest episode (ep 1) or opens the episode the seed names;
\* its RelatedEpisode column is empty or names episode MaxEp.
ExtractorRow(batch, seed) ==
    [date : SeqRange(batch),
     ep : {e \in 1..MaxEp : e = 1 \/ e = seed},
     rel : {0, MaxEp}]

ExtractorOutputs(batch, seed) ==
    UNION {[1..n -> ExtractorRow(batch, seed)] : n \in 0..MaxNewRows}

\* ---------------------------------------------------------------- builder
\* the mutant of append_rows: the new rows are put in front of the running rows
append_rows_front(content, new_rows) ==
    IF new_rows # <<>> THEN [content EXCEPT !.rows = new_rows \o @] ELSE content

\* the mutant of append_rows: the new rows replace the running timeline's rows
append_rows_replacing(content, new_rows) ==
    IF new_rows # <<>> THEN [content EXCEPT !.rows = new_rows] ELSE content

\* lines 698-701, 730-731, 770-771: content.rstrip() + "\n" + new_rows when
\* new_rows.strip() is not empty, the content as it is otherwise
append_rows(content, new_rows) ==
    IF new_rows # <<>> THEN [content EXCEPT !.rows = @ \o new_rows] ELSE content

NoBuild ==
    [mode |-> "none", ents |-> [d \in Dates |-> 0], to_process |-> <<>>,
     batch_start |-> 0, batch_size |-> 0, batch |-> <<>>,
     timeline_content |-> [header |-> <<>>, rows |-> <<>>], next_ep |-> 0]

NoLog ==
    [mode |-> "none", status |-> "none", fileBefore |-> NoFile,
     provBefore |-> [ok |-> FALSE, mode |-> "none", ents |-> [d \in Dates |-> 0],
                     content |-> [header |-> <<>>, rows |-> <<>>]],
     ents |-> [d \in Dates |-> 0], kept |-> <<>>, calls |-> <<>>, returned |-> <<>>,
     answers |-> <<>>,
     ret |-> [header |-> <<>>, rows |-> <<>>]]

NotBuilt ==
    [ok |-> FALSE, mode |-> "none", ents |-> [d \in Dates |-> 0],
     content |-> [header |-> <<>>, rows |-> <<>>]]

StartLog(mode) ==
    [NoLog EXCEPT !.mode = mode, !.status = "running", !.fileBefore = timelineFile,
                  !.provBefore = prov, !.ents = entriesDir]

\* the mutant of FileAfterBatch: the timeline is saved after every batch
FileAfterBatchEager(f, b, finished) ==
    LET entries == get_chronological_entries(b.ents)
    IN  save_timeline(b.timeline_content, entries[Len(entries)], b.ents,
                      get_last_episode_num(b.timeline_content))

\* lines 702-705, 722-743, 762-783: _save_timeline is called once, after the
\* last batch; entries[-1][0] is the last date of the entries read at the start
FileAfterBatch(f, b, finished) ==
    IF finished
    THEN LET entries == get_chronological_entries(b.ents)
         IN  save_timeline(b.timeline_content, entries[Len(entries)], b.ents,
                           get_last_episode_num(b.timeline_content))
    ELSE f

\* the while test of lines 722 and 762 with the locals b: the next batch is cut
\* and handed to the Extractor, or the loop is over and the timeline is saved
LoopTest(b, lg) ==
    IF b.batch_start < Len(b.to_process)
    THEN LET rest == Slice(b.to_process, b.batch_start, Len(b.to_process))
             lens == [i \in 1..Len(rest) |-> ContentLen(b.ents[rest[i]])]
             n == calculate_batch_size(lens, TimelineLen(b.timeline_content))
             batch == Slice(b.to_process, b.batch_start, n)
         IN  /\ pc' = "extract"
             /\ bld' = [b EXCEPT !.batch_size = n, !.batch = batch]
             /\ log' = [lg EXCEPT !.calls = Append(@, [batch |-> batch, seed |-> b.next_ep,
                                                       context |-> b.timeline_content])]
             /\ timelineFile' = FileAfterBatch(timelineFile, b, FALSE)
             /\ UNCHANGED prov
    ELSE /\ pc' = "done"
         /\ bld' = b
         /\ log' = [lg EXCEPT !.status = "ok", !.ret = b.timeline_content]
         /\ timelineFile' = FileAfterBatch(timelineFile, b, TRUE)
         /\ prov' = [ok |-> TRUE, mode |-> b.mode, ents |-> b.ents,
                     content |-> b.timeline_content]

\* lines 665-668: no processed entries, the empty timeline is returned
BuildEmpty ==
    /\ pc = "idle"
    /\ get_chronological_entries(entriesDir) = <<>>
    /\ pc' = "done"
    /\ log' = [StartLog("empty") EXCEPT !.status = "ok", !.ret = get_empty_timeline]
    /\ UNCHANGED <<entriesDir, timelineFile, bld, prov>>

\* lines 670-676 and 757-763: no stored hashes, full rebuild from the empty timeline
BuildFull ==
    /\ pc = "idle"
    /\ get_chronological_entries(entriesDir) # <<>>
    /\ parse_timeline_header(timelineFile)[3] = NoHashes
    /\ LoopTest([NoBuild EXCEPT !.mode = "full", !.ents = entriesDir,
                                !.to_process = get_chronological_entries(entriesDir),
                                !.timeline_content = get_empty_timeline,
                                !.next_ep = 1],
                StartLog("full"))
    /\ UNCHANGED entriesDir

\* the mutant of Change: a run after a change of the extraction prompt or of
\* the Extractor's model rebuilds from the first entry
ChangeOnExtractor ==
    LET hdr == parse_timeline_header(timelineFile)
        entries == get_chronological_entries(entriesDir)
    IN  IF run.pc = "build" /\ run.changes \cap {<<"prompt", 0>>, <<"model", 0>>} # {}
        THEN [kind |-> "rebuild", date |-> entries[1]]
        ELSE find_earliest_change(entriesDir, hdr[3], hdr[1])

\* the change the builder acts on (line 679), when it has stored hashes
Change ==
    LET hdr == parse_timeline_header(timelineFile)
    IN  find_earliest_change(entriesDir, hdr[3], hdr[1])

Detecting ==
    /\ pc = "idle"
    /\ get_chronological_entries(entriesDir) # <<>>
    /\ parse_timeline_header(timelineFile)[3] # NoHashes

\* lines 681-684: cache hit, the stored content is returned
BuildNoop ==
    /\ Detecting
    /\ Change.kind = "none"
    /\ pc' = "done"
    /\ log' = [StartLog("noop") EXCEPT !.status = "ok",
                                       !.ret = read_timeline_content(timelineFile)]
    /\ UNCHANGED <<entriesDir, timelineFile, bld, prov>>

\* lines 686-696: append, one Extractor call with every entry after processed_through
BuildAppend ==
    /\ Detecting
    /\ Change.kind = "append"
    /\ LET hdr == parse_timeline_header(timelineFile)
           entries == get_chronological_entries(entriesDir)
           new_entries == SelectSeq(entries, LAMBDA d : d > hdr[1])
           existing_content == read_timeline_content(timelineFile)
       IN  /\ pc' = "extract"
           /\ bld' = [NoBuild EXCEPT !.mode = "append", !.ents = entriesDir,
                                     !.to_process = new_entries,
                                     !.batch_size = Len(new_entries),
                                     !.batch = new_entries,
                                     !.timeline_content = existing_content,
                                     !.next_ep = hdr[2] + 1]
           /\ log' = [StartLog("append") EXCEPT
                         !.kept = existing_content.rows,
                         !.calls = <<[batch |-> new_entries, seed |-> hdr[2] + 1,
                                      context |-> existing_content]>>]
    /\ UNCHANGED <<entriesDir, timelineFile, prov>>

\* lines 708-722: incremental rebuild from the change point
BuildRebuild ==
    /\ Detecting
    /\ Change.kind = "rebuild"
    /\ LET entries == get_chronological_entries(entriesDir)
           existing_content == read_timeline_content(timelineFile)
           tr == truncate_timeline_to_date(existing_content, Change.date)
       IN  LoopTest([NoBuild EXCEPT !.mode = "rebuild", !.ents = entriesDir,
                                    !.to_process = SelectSeq(entries, LAMBDA d : d >= Change.date),
                                    !.timeline_content = tr[1],
                                    !.next_ep = tr[2] + 1],
                    [StartLog("rebuild") EXCEPT !.kept = tr[1].rows])
    /\ UNCHANGED entriesDir

\* lines 697-706, 730-738, 770-778: the Extractor returned new_rows
ExtractorReturns ==
    /\ pc = "extract"
    /\ \E new_rows \in ExtractorOutputs(bld.batch, bld.next_ep) :
          LET tc == append_rows(bld.timeline_content, new_rows)
              b == [bld EXCEPT !.timeline_content = tc,
                               !.next_ep = IF new_rows # <<>> /\ bld.mode # "append"
                                           THEN get_last_episode_num(tc) + 1 ELSE @,
                               !.batch_start = @ + bld.batch_size]
          IN  LoopTest(b, [log EXCEPT !.returned = @ \o new_rows,
                                      !.answers = Append(@, new_rows)])
    /\ UNCHANGED entriesDir

\* the Extractor call raised: the exception leaves _build_health_timeline
ExtractorFails ==
    /\ pc = "extract"
    /\ pc' = "done"
    /\ log' = [log EXCEPT !.status = "failed"]
    /\ UNCHANGED <<entriesDir, timelineFile, bld, prov>>

\* the caller has the result; the next run may start
Ack ==
    /\ pc = "done"
    /\ pc' = "idle"
    /\ bld' = NoBuild
    /\ log' = NoLog
    /\ UNCHANGED <<entriesDir, timelineFile, prov>>

\* ------------------------------------------------------------ environment
\* a processed entry is written (new date, or new content for a date)
WriteEntry ==
    /\ pc = "idle"
    /\ \E d \in Dates, c \in Contents :
          /\ entriesDir[d] # c
          /\ entriesDir' = [entriesDir EXCEPT ![d] = c]
    /\ UNCHANGED <<timelineFile, pc, bld, log, prov>>

\* a processed entry's file is removed
DeleteEntry ==
    /\ pc = "idle"
    /\ \E d \in Dates :
          /\ entriesDir[d] # 0
          /\ entriesDir' = [entriesDir EXCEPT ![d] = 0]
    /\ UNCHANGED <<timelineFile, pc, bld, log, prov>>

\* health_log.csv is removed
DeleteTimeline ==
    /\ pc = "idle"
    /\ timelineFile.kind = "file"
    /\ timelineFile' = NoFile
    /\ prov' = NotBuilt
    /\ UNCHANGED <<entriesDir, pc, bld, log>>

\* the first header line is damaged so that neither regex matches it
CorruptHeader ==
    /\ pc = "idle"
    /\ timelineFile.kind = "file"
    /\ timelineFile.line1.kind # "malformed"
    /\ timelineFile' = [timelineFile EXCEPT !.line1 = [kind |-> "malformed"]]
    /\ prov' = NotBuilt
    /\ UNCHANGED <<entriesDir, pc, bld, log>>

\* the first header line is of the legacy format ("... | Hash: x | LastEp: N")
LegacyHeader ==
    /\ pc = "idle"
    /\ timelineFile.kind = "file"
    /\ timelineFile.line1.kind = "new"
    /\ timelineFile' = [timelineFile EXCEPT !.line1.kind = "legacy"]
    /\ prov' = NotBuilt
    /\ UNCHANGED <<entriesDir, pc, bld, log>>

\* the "# HASHES:" line is removed or emptied (a timeline of the older format)
DropHashes ==
    /\ pc = "idle"
    /\ timelineFile.kind = "file"
    /\ timelineFile.line2.pairs # <<>>
    /\ \E p \in BOOLEAN :
          timelineFile' = [timelineFile EXCEPT !.line2 = [present |-> p, pairs |-> <<>>]]
    /\ prov' = NotBuilt
    /\ UNCHANGED <<entriesDir, pc, bld, log>>

BuilderInit ==
    /\ entriesDir = [d \in Dates |-> 0]
    /\ timelineFile = NoFile
    /\ pc = "idle"
    /\ bld = NoBuild
    /\ log = NoLog
    /\ prov = NotBuilt

\* --------------------------------------------- the change detector, alone
\* the fingerprints a stored HASHES line can hold for a date (0: no pair)
StoredHashes == {0} \cup {hash_content(c) : c \in Contents}

DetUnset == [kind |-> "unset", date |-> NoDate]
DetParked == [ents |-> [d \in Dates |-> 0], hashes |-> NoHashes, pt |-> NoDate,
              out |-> DetUnset]

\* _find_earliest_change is called (line 679) with at least one entry, a stored
\* dict that is not empty and the date the header's first line names
DetectArgs ==
    {x \in [ents : [Dates -> 0..MaxContent], hashes : [Dates -> StoredHashes],
                    pt : Dates, out : {DetUnset}] :
                x.ents # [d \in Dates |-> 0] /\ x.hashes # NoHashes}

Detect ==
    /\ det.out = DetUnset
    /\ det.pt # NoDate
    /\ det' = [det EXCEPT !.out = find_earliest_change(det.ents, det.hashes, det.pt)]
    /\ UNCHANGED <<bvars, cch, run, bp, val>>

\* ------------------------------------------------- dependency tracking
\* Text is a sequence of one-character strings.  A dict[str, str] is the set of
\* its <<key, value>> items.
Alphabet == <<" ", ",", "0", "1", ":", "_", "a", "b", "c", "d", "e", "i", "l", "m",
              "n", "o", "p", "r", "s", "t", "v", "w", "x">>
Rank(ch) == CHOOSE i \in 1..Len(Alphabet) : Alphabet[i] = ch

\* Python's order of two str values
RECURSIVE StrLess(_, _)
StrLess(a, b) ==
    IF b = <<>> THEN FALSE
    ELSE IF a = <<>> THEN TRUE
    ELSE IF a[1] # b[1] THEN Rank(a[1]) < Rank(b[1])
    ELSE StrLess(Tail(a), Tail(b))

\* str.strip()
RECURSIVE LStrip(_)
LStrip(t) == IF t # <<>> /\ t[1] = " " THEN LStrip(Tail(t)) ELSE t
RECURSIVE RStrip(_)
RStrip(t) ==
    IF t # <<>> /\ t[Len(t)] = " " THEN RStrip(SubSeq(t, 1, Len(t) - 1)) ELSE t
Strip(t) == RStrip(LStrip(t))

\* the index of the first ch in t, 0 when there is none
FirstIndex(t, ch) ==
    IF \E i \in 1..Len(t) : t[i] = ch
    THEN Min({i \in 1..Len(t) : t[i] = ch})
    ELSE 0

\* str.split(sep): the pieces between the separators, empty pieces kept
RECURSIVE Split(_, _)
Split(t, sep) ==
    IF FirstIndex(t, sep) = 0 THEN <<t>>
    ELSE <<SubSeq(t, 1, FirstIndex(t, sep) - 1)>>
            \o Split(SubSeq(t, FirstIndex(t, sep) + 1, Len(t)), sep)

\* sep.join(parts)
RECURSIVE Join(_, _)
Join(parts, sep) ==
    IF parts = <<>> THEN <<>>
    ELSE IF Len(parts) = 1 THEN parts[1]
    ELSE parts[1] \o <<sep>> \o Join(Tail(parts), sep)

DictKeys(d) == {it[1] : it \in d}
NoValue == <<"None">>
\* dict.get(key)
DictGet(d, key) ==
    IF key \in DictKeys(d) THEN (CHOOSE it \in d : it[1] = key)[2] ELSE NoValue
\* d[key] = value
DictPut(d, key, value) == {it \in d : it[1] # key} \cup {<<key, value>>}

\* sorted(deps.items())
RECURSIVE SortedItems(_)
SortedItems(d) ==
    IF d = {} THEN <<>>
    ELSE LET first == CHOOSE it \in d : \A o \in d : o = it \/ StrLess(it[1], o[1])
         IN  <<first>> \o SortedItems(d \ {first})

\* A first line is kept as what the pattern of parse_deps_comment sees of it:
\* the line "<!--" \s* "DEPS:" body "-->" (kind "deps", body free of "-->"),
\* any other line (kind "other"), or the first line "" of an empty file.
OtherLine == [kind |-> "other", body |-> <<>>]
EmptyLine == [kind |-> "empty", body |-> <<>>]

\* the mutant of format_deps_comment: key and value are joined by "="
format_deps_comment_equals(deps) ==
    LET items == SortedItems(deps)
        pairs == [i \in 1..Len(items) |-> items[i][1] \o <<"=">> \o items[i][2]]
    IN  [kind |-> "deps", body |-> <<" ">> \o Join(pairs, ",") \o <<" ">>]

\* format_deps_comment: "<!-- DEPS: " + ",".join(k:v, sorted) + " -->"
format_deps_comment(deps) ==
    LET items == SortedItems(deps)
        pairs == [i \in 1..Len(items) |-> items[i][1] \o <<":">> \o items[i][2]]
    IN  [kind |-> "deps", body |-> <<" ">> \o Join(pairs, ",") \o <<" ">>]

\* match.group(1) of "<!--\s*DEPS:\s*(.+?)\s*-->": the body without the blanks
\* around it; of a body of blanks only, one blank; no match on the empty body
DepsGroup(body) ==
    IF Strip(body) # <<>> THEN Strip(body) ELSE <<" ">>

RECURSIVE ParsePairs(_, _)
ParsePairs(pairs, deps) ==
    IF pairs = <<>> THEN deps
    ELSE LET pair == pairs[1]
             c == FirstIndex(pair, ":")
         IN  IF c # 0
             THEN ParsePairs(Tail(pairs),
                             DictPut(deps, Strip(SubSeq(pair, 1, c - 1)),
                                     Strip(SubSeq(pair, c + 1, Len(pair)))))
             ELSE ParsePairs(Tail(pairs), deps)

\* parse_deps_comment
parse_deps_comment(line) ==
    IF line.kind # "deps" \/ line.body = <<>> THEN {}
    ELSE ParsePairs(Split(DepsGroup(line.body), ","), {})

\* an artifact: no file, or a file and its first line
NoArtifact == [kind |-> "missing"]
ArtifactFile(line) == [kind |-> "file", first |-> line]

\* the mutant of check_needs_regeneration: the stored keys must be the expected ones
check_needs_regeneration_strict(art, expected_deps) ==
    IF art.kind = "missing" THEN TRUE
    ELSE LET existing_deps == parse_deps_comment(art.first)
         IN  IF existing_deps = {} THEN TRUE
             ELSE \/ \E it \in expected_deps : DictGet(existing_deps, it[1]) # it[2]
                  \/ DictKeys(existing_deps) # DictKeys(expected_deps)

\* _check_needs_regeneration
check_needs_regeneration(art, expected_deps) ==
    IF art.kind = "missing" THEN TRUE
    ELSE LET existing_deps == parse_deps_comment(art.first)
         IN  IF existing_deps = {} THEN TRUE
             ELSE \E it \in expected_deps : DictGet(existing_deps, it[1]) # it[2]

\* ------------------------------------------- one cached artifact, alone
MaxBody == 4
CacheKeys == {<<"a">>, <<"b">>}
CacheValues == {<<"0">>, <<"1">>}
ItemsOf(f) == {<<k, f[k]>> : k \in DOMAIN f}
Descriptors == UNION {{ItemsOf(f) : f \in [K -> CacheValues]} : K \in SUBSET CacheKeys}
EditChars == {" ", ",", ":", "0", "1", "a", "b"}
Bodies == UNION {[1..n -> EditChars] : n \in 0..MaxBody}

NotWritten == [ok |-> FALSE, deps |-> {}]
CchParked == [art |-> NoArtifact, exp |-> {}, checked |-> FALSE, stale |-> FALSE,
              written |-> NotWritten]

\* an artifact is written with the descriptor line in front (lines 1179-1184)
WriteArtifact ==
    /\ \E deps \in Descriptors :
          cch' = [art |-> ArtifactFile(format_deps_comment(deps)), exp |-> {},
                  checked |-> FALSE, stale |-> FALSE, written |-> [ok |-> TRUE, deps |-> deps]]
    /\ UNCHANGED <<bvars, det, run, bp, val>>

\* the descriptor line of a written artifact is edited by hand
HandEdit ==
    /\ cch.written.ok
    /\ \E body \in Bodies :
          cch' = [art |-> ArtifactFile([kind |-> "deps", body |-> body]), exp |-> {},
                  checked |-> FALSE, stale |-> FALSE, written |-> NotWritten]
    /\ UNCHANGED <<bvars, det, run, bp, val>>

\* the file is emptied, loses its descriptor line, or is deleted
Damage ==
    /\ cch.art.kind = "file"
    /\ \E a \in {ArtifactFile(EmptyLine), ArtifactFile(OtherLine), NoArtifact} :
          cch' = [art |-> a, exp |-> {}, checked |-> FALSE, stale |-> FALSE, written |-> NotWritten]
    /\ UNCHANGED <<bvars, det, run, bp, val>>

CheckArtifact ==
    /\ \E deps \in Descriptors :
          cch' = [cch EXCEPT !.exp = deps, !.checked = TRUE,
                             !.stale = check_needs_regeneration(cch.art, deps)]
    /\ UNCHANGED <<bvars, det, run, bp, val>>

CacheNext == WriteArtifact \/ HandEdit \/ Damage \/ CheckArtifact
\* ------------------------------------------------ run: the section loop
MaxRunDate == 2
MaxEdits == 4
RunDates == 1..MaxRunDate

HexDigits == <<"0", "1", "2", "3", "4", "5", "6", "7", "8", "9", "a", "b", "c", "d", "e", "f">>
\* the hex text of a fingerprint
HashText(h) == <<HexDigits[((h \div 16) % 16) + 1], HexDigits[(h % 16) + 1]>>
NoneText == <<"n", "o", "n", "e">>

KeyRaw == <<"r", "a", "w">>
KeyLabs == <<"l", "a", "b", "s">>
KeyExams == <<"e", "x", "a", "m", "s">>
KeyProcessPrompt == <<"p", "r", "o", "c", "e", "s", "s", "_", "p", "r", "o", "m", "p", "t">>
KeyValidatePrompt == <<"v", "a", "l", "i", "d", "a", "t", "e", "_", "p", "r", "o", "m", "p", "t">>

\* _get_section_dependencies, of the section of date d (no exams are loaded)
get_section_dependencies(r, d) ==
    {<<KeyRaw, HashText(hash_content(r.journal[d]))>>,
     <<KeyLabs, IF r.labs[d] # 0 THEN HashText(hash_content(r.labs[d])) ELSE NoneText>>,
     <<KeyExams, NoneText>>,
     <<KeyProcessPrompt, HashText(hash_content(r.process_prompt))>>,
     <<KeyValidatePrompt, HashText(hash_content(r.validate_prompt))>>}

\* the deps of a date that has labs and no section (_create_placeholder_sections)
placeholder_dependencies(r, d) ==
    {<<KeyRaw, NoneText>>,
     <<KeyLabs, HashText(hash_content(r.labs[d]))>>,
     <<KeyExams, NoneText>>,
     <<KeyProcessPrompt, NoneText>>,
     <<KeyValidatePrompt, NoneText>>}

\* _create_placeholder_sections: the artifacts after it
create_placeholder_sections(r) ==
    [d \in RunDates |->
        IF /\ r.journal[d] = 0
           /\ r.labs[d] # 0
           /\ check_needs_regeneration(r.art[d], placeholder_dependencies(r, d))
        THEN ArtifactFile(format_deps_comment(placeholder_dependencies(r, d)))
        ELSE r.art[d]]

\* the mutant of sections_to_process: every section is processed
sections_to_process_all(r, arts) ==
    {d \in RunDates : r.journal[d] # 0}

\* run, lines 478-503: the sections whose processed file needs regeneration
sections_to_process(r, arts) ==
    {d \in RunDates :
        /\ r.journal[d] # 0
        /\ check_needs_regeneration(arts[d], get_section_dependencies(r, d))}

RunParked ==
    [pc |-> "parked", journal |-> [d \in RunDates |-> 0], labs |-> [d \in RunDates |-> 0],
     process_prompt |-> 1, validate_prompt |-> 1,
     art |-> [d \in RunDates |-> NoArtifact], pending |-> {},
     submits |-> [d \in RunDates |-> 0], artAtStart |-> [d \in RunDates |-> NoArtifact],
     clean |-> [d \in RunDates |-> FALSE], cleanAtStart |-> [d \in RunDates |-> FALSE],
     edits |-> 0]

\* after construction: a journal of one section, nothing processed yet
RunIdle == [RunParked EXCEPT !.pc = "idle", !.journal[1] = 1]

\* run, lines 468-507: placeholders are written, the staleness of every section
\* is checked and every stale section is submitted to the pool
RunStart ==
    /\ run.pc = "idle"
    /\ \E d \in RunDates : run.journal[d] # 0
    /\ LET arts == create_placeholder_sections(run)
           to_process == sections_to_process(run, arts)
       IN  run' = [run EXCEPT !.pc = "pool",
                              !.art = arts,
                              !.artAtStart = arts,
                              !.cleanAtStart = run.clean,
                              !.pending = to_process,
                              !.submits = [d \in RunDates |->
                                              IF d \in to_process THEN 1 ELSE 0]]
    /\ UNCHANGED <<bvars, det, cch, bp, val>>

\* _process_section, validation passed: the processed file is written with its deps
ProcessSectionOk ==
    /\ run.pc = "pool"
    /\ \E d \in run.pending :
          run' = [run EXCEPT
                     !.pending = @ \ {d},
                     !.art[d] = ArtifactFile(format_deps_comment(
                                                get_section_dependencies(run, d))),
                     !.clean[d] = TRUE]
    /\ UNCHANGED <<bvars, det, cch, bp, val>>

\* _process_section, three attempts rejected or an exception: no processed file
ProcessSectionFails ==
    /\ run.pc = "pool"
    /\ \E d \in run.pending : run' = [run EXCEPT !.pending = @ \ {d}]
    /\ UNCHANGED <<bvars, det, cch, bp, val>>

\* every future has completed
RunEnd ==
    /\ run.pc = "pool"
    /\ run.pending = {}
    /\ run' = [run EXCEPT !.pc = "idle",
                           !.submits = RunParked.submits,
                           !.artAtStart = RunParked.artAtStart,
                           !.cleanAtStart = RunParked.cleanAtStart]
    /\ UNCHANGED <<bvars, det, cch, bp, val>>

\* between runs a section of the journal is written, edited or removed
EditJournal ==
    /\ run.pc = "idle"
    /\ run.edits < MaxEdits
    /\ \E d \in RunDates, c \in 0..MaxContent :
          /\ c # run.journal[d]
          /\ run' = [run EXCEPT !.journal[d] = c, !.clean[d] = FALSE, !.edits = @ + 1]
    /\ UNCHANGED <<bvars, det, cch, bp, val>>

\* between runs the labs of a date appear or disappear
ChangeLabs ==
    /\ run.pc = "idle"
    /\ run.edits < MaxEdits
    /\ \E d \in RunDates :
          run' = [run EXCEPT !.labs[d] = 1 - @, !.clean[d] = FALSE, !.edits = @ + 1]
    /\ UNCHANGED <<bvars, det, cch, bp, val>>

\* between runs a prompt file is edited
ChangePrompt ==
    /\ run.pc = "idle"
    /\ run.edits < MaxEdits
    /\ \E c \in Contents :
          \/ /\ c # run.process_prompt
             /\ run' = [run EXCEPT !.process_prompt = c,
                                   !.clean = [d \in RunDates |-> FALSE],
                                   !.edits = @ + 1]
          \/ /\ c # run.validate_prompt
             /\ run' = [run EXCEPT !.validate_prompt = c,
                                   !.clean = [d \in RunDates |-> FALSE],
                                   !.edits = @ + 1]
    /\ UNCHANGED <<bvars, det, cch, bp, val>>

RunNext ==
    \/ RunStart
    \/ ProcessSectionOk
    \/ ProcessSectionFails
    \/ RunEnd
    \/ EditJournal
    \/ ChangeLabs
    \/ ChangePrompt

\* ------------------------------------------ the batch planner, alone
MaxBatchEntries == 3
\* the characters of entry text that fit beside an empty timeline
BaseBudgetChars ==
    (CONTEXT_LIMIT - SYSTEM_PROMPT_TOKENS - MAX_OUTPUT_TOKENS - SAFETY_MARGIN)
        * CHARS_PER_TOKEN
\* the entries the output allowance admits
OutputEntries == (MAX_OUTPUT_TOKENS - OUTPUT_BUFFER) \div OUTPUT_TOKENS_PER_ENTRY

\* len(content) of an entry: empty, short, half the budget, around the budget
EntryLens ==
    {0, CHARS_PER_TOKEN, BaseBudgetChars \div 2, BaseBudgetChars - CHARS_PER_TOKEN,
     BaseBudgetChars, BaseBudgetChars + CHARS_PER_TOKEN}
\* len(timeline_content): the header alone, some rows, the whole budget and more
TimelineSizes ==
    {HeaderChars, HeaderChars + RowChars + 1, BaseBudgetChars \div 2, BaseBudgetChars,
     BaseBudgetChars + BaseBudgetChars}
\* the remaining entries: every short list, and lists of short entries around
\* the number the output allowance admits
EntryLists ==
    UNION {[1..n -> EntryLens] : n \in 0..MaxBatchEntries}
        \cup {[i \in 1..n |-> l] : n \in (OutputEntries - 1)..(OutputEntries + 1),
                                   l \in {0, CHARS_PER_TOKEN}}

\* ------------------------------------------------------ timeline validation
\* validate_csv_structure: expected_header, split at the commas
TimelineColumns ==
    <<"Date", "EpisodeID", "Item", "Category", "Event", "RelatedEpisode", "Details">>

\* validate_csv_structure: the number of fields a row must have
ROW_COLUMNS == 7

\* the fields csv.reader reads from a row the Extractor wrote: Date, EpisodeID,
\* Item, Category, Event, RelatedEpisode, Details
RowFields(r) == <<r.date, r.ep, "Item", "Category", "Event", r.rel, "Details">>

\* the lines of the file that do not start with '#', each split into fields
CsvLines(f) ==
    (IF f.content.header # <<>> THEN <<f.content.header>> ELSE <<>>)
        \o [i \in 1..Len(f.content.rows) |-> RowFields(f.content.rows[i])]

\* line 79: lines[0].strip().startswith("Date,")
StartsWithDate(line) == Len(line) >= 2 /\ line[1] = "Date"

\* lines 83-88: next(reader) takes the first line as the header, whatever it
\* is; the lines after it are numbered from 2 and their fields counted
ColumnFindings(lines) ==
    LET at == SelectSeq([i \in 1..(Len(lines) - 1) |-> i + 1],
                        LAMBDA i : Len(lines[i]) # ROW_COLUMNS)
    IN  [k \in 1..Len(at) |-> [kind |-> "columns", line |-> at[k], got |-> Len(lines[at[k]])]]

\* validate_csv_structure over the lines that do not start with '#'
validate_csv_lines(lines) ==
    IF lines = <<>> THEN <<[kind |-> "empty", line |-> 0, got |-> 0]>>
    ELSE (IF ~StartsWithDate(lines[1])
          THEN <<[kind |-> "header", line |-> 1, got |-> Len(lines[1])]>>
          ELSE <<>>)
         \o ColumnFindings(lines)

\* validate_csv_structure: the list of its findings
validate_csv_structure(f) == validate_csv_lines(CsvLines(f))

\* the lines of a timeline file that is checked: a header row of 7 or of 6
\* columns, or a row of some number of fields (0: a blank line)
MaxCsvLines == 3
CsvLineChoices ==
    {TimelineColumns, get_empty_timeline.header}
        \cup {[i \in 1..n |-> "f"] : n \in {0, ROW_COLUMNS - 1, ROW_COLUMNS, ROW_COLUMNS + 1}}
CsvFiles == UNION {[1..n -> CsvLineChoices] : n \in 0..MaxCsvLines}

\* a row of the CSV as validate_episode_continuity reads it: ep is the number
\* of its EpisodeID (0: the field is empty, NaN in the data frame), item its
\* Item (0: the field is empty, NaN)
MaxValRows == 3
MaxValEp == 5
MaxItem == 2
ValRow == [ep : 0..MaxValEp, item : 0..MaxItem]
ValTimelines == UNION {[1..n -> ValRow] : n \in 0..MaxValRows}

\* list.sort() of a list of numbers
RECURSIVE SortNums(_)
SortNums(s) ==
    IF s = <<>> THEN <<>>
    ELSE LET m == Min(SeqRange(s))
             i == CHOOSE k \in 1..Len(s) : s[k] = m /\ \A j \in 1..(k - 1) : s[j] # m
         IN  <<m>> \o SortNums([k \in 1..(Len(s) - 1) |-> IF k < i THEN s[k] ELSE s[k + 1]])

\* Series.unique(): the distinct values in order of first appearance, NaN (0)
\* being a value like the others
Unique(s) ==
    LET firsts == SelectSeq([k \in 1..Len(s) |-> k],
                            LAMBDA k : \A j \in 1..(k - 1) : s[j] # s[k])
    IN  [k \in 1..Len(firsts) |-> s[firsts[k]]]

\* lines 15-22: the numbers of the EpisodeID column without NaN, sorted
EpisodeNums(rows) ==
    LET clean == SelectSeq(rows, LAMBDA r : r.ep # 0)
    IN  SortNums([k \in 1..Len(clean) |-> clean[k].ep])

\* the mutant of EpisodeGaps: every step upwards is a gap
EpisodeGapsAnyStep(episode_nums) ==
    LET at == SelectSeq([k \in 1..(Len(episode_nums) - 1) |-> k],
                        LAMBDA k : episode_nums[k + 1] - episode_nums[k] > 0)
    IN  [k \in 1..Len(at) |->
            [kind |-> "gap", from |-> episode_nums[at[k]], to |-> episode_nums[at[k] + 1]]]

\* lines 24-30: one "Episode ID gap" message for every neighbouring pair of the
\* sorted list that differs by more than 1
EpisodeGaps(episode_nums) ==
    LET at == SelectSeq([k \in 1..(Len(episode_nums) - 1) |-> k],
                        LAMBDA k : episode_nums[k + 1] - episode_nums[k] > 1)
    IN  [k \in 1..Len(at) |->
            [kind |-> "gap", from |-> episode_nums[at[k]], to |-> episode_nums[at[k] + 1]]]

\* lines 36-37: the distinct Item values of the rows of an episode
UniqueItems(df_clean, ep_id) ==
    LET ep_rows == SelectSeq(df_clean, LAMBDA r : r.ep = ep_id)
    IN  Unique([k \in 1..Len(ep_rows) |-> ep_rows[k].item])

\* validate_episode_continuity.  The message of line 40 joins the item values
\* with ', '.join: a NaN among them is a float and the join raises TypeError,
\* which leaves the function without a list.
validate_episode_continuity(rows) ==
    LET gaps == EpisodeGaps(EpisodeNums(rows))
        df_clean == SelectSeq(rows, LAMBDA r : r.ep # 0)
        ep_ids == Unique([k \in 1..Len(df_clean) |-> df_clean[k].ep])
        reused == SelectSeq(ep_ids, LAMBDA ep_id : Len(UniqueItems(df_clean, ep_id)) > 1)
    IN  IF \E k \in 1..Len(reused) : 0 \in SeqRange(UniqueItems(df_clean, reused[k]))
        THEN [raised |-> TRUE, errors |-> <<>>]
        ELSE [raised |-> FALSE,
              errors |-> gaps \o [k \in 1..Len(reused) |->
                                    [kind |-> "items", from |-> reused[k], to |-> reused[k]]]]

\* a row as validate_related_episodes reads it: ep the number of its EpisodeID,
\* rel the number its RelatedEpisode names (0: the field is empty, NaN)
MaxRelEp == 3
RelRow == [ep : 0..MaxRelEp, rel : 0..MaxRelEp]
RelTimelines == UNION {[1..n -> RelRow] : n \in 0..MaxValRows}

\* the mutant of AllEpisodes: the ids that are named count as existing
AllEpisodesOrNamed(rows) ==
    {rows[k].ep : k \in 1..Len(rows)} \cup {rows[k].rel : k \in 1..Len(rows)}

\* line 52: set(df['EpisodeID'].dropna())
AllEpisodes(rows) == {rows[k].ep : k \in 1..Len(rows)} \ {0}

\* validate_related_episodes: one message, with the line idx+2 and the id, for
\* every row whose RelatedEpisode is not empty and not in all_episodes
validate_related_episodes(rows) ==
    LET all_episodes == AllEpisodes(rows)
        at == SelectSeq([k \in 1..Len(rows) |-> k],
                        LAMBDA k : rows[k].rel # 0 /\ rows[k].rel \notin all_episodes)
    IN  [k \in 1..Len(at) |-> [kind |-> "related", line |-> at[k] + 1,
                                related |-> rows[at[k]].rel]]

\* a row as validate_comprehensive_stack_updates reads it; marker says that
\* its Details hold "[STACK_UPDATE]"
MaxStackRows == 3
MaxStackDate == 3
StackCategories == {"supplement", "medication", "experiment"}
RowCategories == {"supplement", "experiment", "condition"}
RowEvents == {"started", "stopped", "ended"}
StackRow(max_ep, max_item, min_date) ==
    [date : min_date..MaxStackDate, ep : 1..max_ep, item : 1..max_item,
     category : RowCategories, event : RowEvents, marker : BOOLEAN]

\* lines 163-167: the dates of the rows whose Details hold the marker
StackUpdateDates(rows) == {rows[k].date : k \in {j \in 1..Len(rows) : rows[j].marker}}

\* lines 171-187: the stopped/ended rows of the date that are of a stack
\* category and lack the marker give one message for the date
MissingMarker(rows, update_date) ==
    LET missing_marker ==
            SelectSeq(rows, LAMBDA r : /\ r.date = update_date
                                       /\ r.event \in {"stopped", "ended"}
                                       /\ ~r.marker
                                       /\ r.category \in StackCategories)
    IN  IF missing_marker # <<>>
        THEN <<[kind |-> "marker", date |-> update_date, item |-> 0, ep |-> 0]>>
        ELSE <<>>

\* lines 190-194: the episodes with a started row of a stack category before
\* the date, in order of first appearance
ActiveBefore(rows, update_date) ==
    LET started == SelectSeq(rows, LAMBDA r : /\ r.date < update_date
                                              /\ r.category \in StackCategories
                                              /\ r.event = "started")
    IN  Unique([k \in 1..Len(started) |-> started[k].ep])

\* the mutant of StoppedEvent: every category is closed by "stopped"
StoppedEventAlways(category) == "stopped"

\* line 200
StoppedEvent(category) ==
    IF category \in {"supplement", "medication"} THEN "stopped" ELSE "ended"

\* lines 198-215: the episode is reported unless a row of it with the closing
\* event of its first row's category is dated on or before the date, or a
\* started row with its first row's item is dated on the date
NotStoppedOrContinued(rows, update_date, ep_id) ==
    LET ep_rows == SelectSeq(rows, LAMBDA r : r.ep = ep_id)
        stopped_event == StoppedEvent(ep_rows[1].category)
        stopped == SelectSeq(ep_rows, LAMBDA r : r.event = stopped_event
                                                  /\ r.date <= update_date)
        continued == SelectSeq(rows, LAMBDA r : /\ r.date = update_date
                                                /\ r.item = ep_rows[1].item
                                                /\ r.event = "started")
    IN  stopped = <<>> /\ continued = <<>>

\* lines 170-220: the messages of one stack-update date
StackUpdateFindings(rows, update_date) ==
    LET active_before == ActiveBefore(rows, update_date)
        reported == SelectSeq(active_before,
                              LAMBDA ep_id : NotStoppedOrContinued(rows, update_date, ep_id))
    IN  MissingMarker(rows, update_date)
            \o [k \in 1..Len(reported) |->
                  [kind |-> "active", date |-> update_date,
                   item |-> SelectSeq(rows, LAMBDA r : r.ep = reported[k])[1].item,
                   ep |-> reported[k]]]

\* the loop of line 169 over the sorted dates
RECURSIVE StackFindingsOver(_, _)
StackFindingsOver(rows, dates) ==
    IF dates = <<>> THEN <<>>
    ELSE StackUpdateFindings(rows, dates[1])
            \o StackFindingsOver(rows, [k \in 1..(Len(dates) - 1) |-> dates[k + 1]])

\* validate_comprehensive_stack_updates: entries_dir is a parameter the body
\* never reads
validate_comprehensive_stack_updates(rows, entries_dir) ==
    StackFindingsOver(rows, SortedSeq(StackUpdateDates(rows)))

\* get_validation_severity
critical_checks ==
    {"episode_continuity", "csv_structure", "chronological_order",
     "episode_state_consistency"}
get_validation_severity(check_name) ==
    IF check_name \in critical_checks THEN "critical" ELSE "warning"

BpParked ==
    [lens |-> <<>>, timeline_size |-> 0, pc |-> "parked", i |-> 0, batch_chars |-> 0,
     count |-> 0, out |-> 0]
ValParked ==
    [rows |-> <<>>, pc |-> "parked", raised |-> FALSE, errors |-> <<>>,
     total_errors |-> 0, critical_errors |-> 0]

\* lines 1029-1033: the call has been entered, the loop has not started
BatchInit ==
    /\ BuilderInit
    /\ det = DetParked
    /\ cch = CchParked
    /\ run = RunParked
    /\ bp \in [lens : EntryLists, timeline_size : TimelineSizes, pc : {"loop"}, i : {1},
               batch_chars : {0}, count : {0}, out : {0}]
    /\ val = ValParked

\* lines 1034-1043: one entry is taken into the batch
BatchStep ==
    /\ bp.pc = "loop"
    /\ bp.i <= Len(bp.lens)
    /\ ~BatchBreak(bp.lens[bp.i], bp.batch_chars, bp.count,
                   AvailableInputTokens(bp.timeline_size))
    /\ bp' = [bp EXCEPT !.i = @ + 1, !.batch_chars = @ + bp.lens[bp.i], !.count = @ + 1]
    /\ UNCHANGED <<bvars, det, cch, run, val>>

\* lines 1038, 1040, 1046: the loop is left, max(1, count) is returned
BatchReturn ==
    /\ bp.pc = "loop"
    /\ \/ bp.i > Len(bp.lens)
       \/ /\ bp.i <= Len(bp.lens)
          /\ BatchBreak(bp.lens[bp.i], bp.batch_chars, bp.count,
                        AvailableInputTokens(bp.timeline_size))
    /\ bp' = [bp EXCEPT !.pc = "done", !.out = BatchResult(bp.count)]
    /\ UNCHANGED <<bvars, det, cch, run, val>>

BatchNext == BatchStep \/ BatchReturn

\* _calculate_batch_size over lists of entries and timeline sizes
SpecBatch == BatchInit /\ [][BatchNext]_vars

\* run_all_validations and print_validation_report over timelines, with the
\* episode continuity check; the lists of the other checks are left empty
ValidateInit ==
    /\ BuilderInit
    /\ det = DetParked
    /\ cch = CchParked
    /\ run = RunParked
    /\ bp = BpParked
    /\ val \in [rows : ValTimelines, pc : {"start"}, raised : {FALSE}, errors : {<<>>},
                total_errors : {0}, critical_errors : {0}]

\* line 242: validate_episode_continuity returns its list or raises
ValidateEpisodeContinuity ==
    /\ val.pc = "start"
    /\ LET r == validate_episode_continuity(val.rows)
       IN  val' = [val EXCEPT !.pc = IF r.raised THEN "raised" ELSE "validated",
                              !.raised = r.raised, !.errors = r.errors]
    /\ UNCHANGED <<bvars, det, cch, run, bp>>

\* lines 280-285: total_errors and critical_errors of the report
PrintValidationReport ==
    /\ val.pc = "validated"
    /\ val' = [val EXCEPT !.pc = "reported",
                          !.total_errors = Len(val.errors),
                          !.critical_errors =
                              IF get_validation_severity("episode_continuity") = "critical"
                              THEN Len(val.errors) ELSE 0]
    /\ UNCHANGED <<bvars, det, cch, run, bp>>

ValidateNext == ValidateEpisodeContinuity \/ PrintValidationReport

SpecValidate == ValidateInit /\ [][ValidateNext]_vars

\* validate_related_episodes over timelines
RelatedInit ==
    /\ BuilderInit
    /\ det = DetParked
    /\ cch = CchParked
    /\ run = RunParked
    /\ bp = BpParked
    /\ val \in [rows : RelTimelines, pc : {"start"}, raised : {FALSE}, errors : {<<>>},
                total_errors : {0}, critical_errors : {0}]

\* line 243: the list of validate_related_episodes
ValidateRelatedEpisodes ==
    /\ val.pc = "start"
    /\ val' = [val EXCEPT !.pc = "validated", !.errors = validate_related_episodes(val.rows)]
    /\ UNCHANGED <<bvars, det, cch, run, bp>>

\* lines 280-285: a check that is not critical adds to total_errors alone
PrintRelatedReport ==
    /\ val.pc = "validated"
    /\ val' = [val EXCEPT !.pc = "reported",
                          !.total_errors = Len(val.errors),
                          !.critical_errors =
                              IF get_validation_severity("related_episodes") = "critical"
                              THEN Len(val.errors) ELSE 0]
    /\ UNCHANGED <<bvars, det, cch, run, bp>>

RelatedNext == ValidateRelatedEpisodes \/ PrintRelatedReport

SpecRelated == RelatedInit /\ [][RelatedNext]_vars

\* validate_csv_structure over files
CsvInit ==
    /\ BuilderInit
    /\ det = DetParked
    /\ cch = CchParked
    /\ run = RunParked
    /\ bp = BpParked
    /\ val \in [rows : CsvFiles, pc : {"start"}, raised : {FALSE}, errors : {<<>>},
                total_errors : {0}, critical_errors : {0}]

\* line 244: the list of validate_csv_structure
ValidateCsvStructure ==
    /\ val.pc = "start"
    /\ val' = [val EXCEPT !.pc = "validated", !.errors = validate_csv_lines(val.rows)]
    /\ UNCHANGED <<bvars, det, cch, run, bp>>

\* lines 280-285: the findings of a critical check add to both counts
PrintCsvReport ==
    /\ val.pc = "validated"
    /\ val' = [val EXCEPT !.pc = "reported",
                          !.total_errors = Len(val.errors),
                          !.critical_errors =
                              IF get_validation_severity("csv_structure") = "critical"
                              THEN Len(val.errors) ELSE 0]
    /\ UNCHANGED <<bvars, det, cch, run, bp>>

CsvNext == ValidateCsvStructure \/ PrintCsvReport

SpecCsv == CsvInit /\ [][CsvNext]_vars

\* validate_comprehensive_stack_updates over timelines that are written row by
\* row in date order, episodes and items being numbered in the order of their
\* first appearance; entries is the set of dates whose processed entry declares
\* a comprehensive stack update in its text
StackInit ==
    /\ BuilderInit
    /\ det = DetParked
    /\ cch = CchParked
    /\ run = RunParked
    /\ bp = BpParked
    /\ val = [rows |-> <<>>, pc |-> "edit", raised |-> FALSE, errors |-> <<>>,
              total_errors |-> 0, critical_errors |-> 0, entries |-> {}]

\* a row is added at the end of the timeline
AddStackRow ==
    /\ val.pc = "edit"
    /\ Len(val.rows) < MaxStackRows
    /\ LET n == Len(val.rows)
           max_ep == Max({0} \cup {val.rows[k].ep : k \in 1..n}) + 1
           max_item == Max({0} \cup {val.rows[k].item : k \in 1..n}) + 1
           min_date == IF n = 0 THEN 1 ELSE val.rows[n].date
       IN  \E r \in StackRow(max_ep, max_item, min_date) :
              val' = [val EXCEPT !.rows = Append(@, r)]
    /\ UNCHANGED <<bvars, det, cch, run, bp>>

\* lines 250-255: the list of validate_comprehensive_stack_updates, for an
\* entries directory whose last entry declares a stack update or does not
ValidateStackUpdates ==
    /\ val.pc = "edit"
    /\ \E entries \in {{}, {MaxStackDate}} :
          val' = [val EXCEPT !.pc = "validated", !.entries = entries,
                             !.errors = validate_comprehensive_stack_updates(val.rows, entries)]
    /\ UNCHANGED <<bvars, det, cch, run, bp>>

StackNext == AddStackRow \/ ValidateStackUpdates

SpecStack == StackInit /\ [][StackNext]_vars

\* --------------------------------------------------- the worker pool of run
MaxWorkers == 2
\* _process_section, line 1138: for attempt in range(1, 4)
MAX_ATTEMPTS == 3

\* a future of the pool: not submitted, queued, in the process call or in the
\* validate call of an attempt, or completed with (date, True), with
\* (date, False) or with an exception
WkNone == [st |-> "none", attempt |-> 0, process_calls |-> 0, validate_calls |-> 0]
Running(r) == {d \in RunDates : r.wk[d].st \in {"process", "validate"}}
Completed(r) == {d \in RunDates : r.wk[d].st \in {"ok", "failed", "raised"}}

\* the mutant of WorkerFree: the pool starts a future whenever one is queued
WorkerFreeAlways(r) == TRUE

\* ThreadPoolExecutor(max_workers=max_workers): a queued future starts when
\* fewer than max_workers are running
WorkerFree(r) == Cardinality(Running(r)) < r.max_workers

\* the mutant of LastAttempt: one attempt more
LastAttemptLater(attempt) == attempt >= MAX_ATTEMPTS + 1

\* the attempt after which the for loop of line 1138 is over
LastAttempt(attempt) == attempt >= MAX_ATTEMPTS

\* the processed files a run of the pool can find: none, or one written for
\* some content of the section
PoolArtifacts(r, d) ==
    {NoArtifact}
        \cup {ArtifactFile(format_deps_comment(
                 get_section_dependencies([r EXCEPT !.journal[d] = c], d))) : c \in Contents}

PoolParked ==
    [pc |-> "parked", journal |-> [d \in RunDates |-> 0], labs |-> [d \in RunDates |-> 0],
     process_prompt |-> 1, validate_prompt |-> 1,
     art |-> [d \in RunDates |-> NoArtifact], artAtStart |-> [d \in RunDates |-> NoArtifact],
     failed_md |-> [d \in RunDates |-> FALSE],
     max_workers |-> 1, wk |-> [d \in RunDates |-> WkNone],
     submitted |-> {}, collected |-> {}, failed |-> <<>>, status |-> "none"]

\* before run: a journal with a section for every date, and for every date no
\* processed file, a current one or one of another content
PoolInit ==
    /\ BuilderInit
    /\ det = DetParked
    /\ cch = CchParked
    /\ bp = BpParked
    /\ val = ValParked
    /\ \E journal \in [RunDates -> Contents], max_workers \in 1..MaxWorkers :
          \E art \in [RunDates -> UNION {PoolArtifacts([PoolParked EXCEPT !.journal = journal], d)
                                             : d \in RunDates}] :
             /\ \A d \in RunDates :
                   art[d] \in PoolArtifacts([PoolParked EXCEPT !.journal = journal], d)
             /\ run = [PoolParked EXCEPT !.pc = "idle", !.journal = journal,
                                         !.max_workers = max_workers, !.art = art]

\* run, lines 460-505: status in_progress, the stale sections are submitted
PoolSubmit ==
    /\ run.pc = "idle"
    /\ LET to_process == sections_to_process(run, run.art)
       IN  run' = [run EXCEPT !.pc = "pool", !.status = "in_progress",
                              !.artAtStart = run.art,
                              !.submitted = to_process,
                              !.wk = [d \in RunDates |->
                                         IF d \in to_process
                                         THEN [WkNone EXCEPT !.st = "queued"] ELSE WkNone]]
    /\ UNCHANGED <<bvars, det, cch, bp, val>>

\* a worker takes a queued future: _process_section starts its first attempt
WorkerStarts ==
    /\ run.pc = "pool"
    /\ WorkerFree(run)
    /\ \E d \in RunDates :
          /\ run.wk[d].st = "queued"
          /\ run' = [run EXCEPT !.wk[d].st = "process", !.wk[d].attempt = 1]
    /\ UNCHANGED <<bvars, det, cch, bp, val>>

\* lines 1140-1154: the process call of an attempt returns
LlmProcessReturns ==
    /\ run.pc = "pool"
    /\ \E d \in RunDates :
          /\ run.wk[d].st = "process"
          /\ run' = [run EXCEPT !.wk[d].st = "validate", !.wk[d].process_calls = @ + 1]
    /\ UNCHANGED <<bvars, det, cch, bp, val>>

\* lines 1157-1189: the validation holds $OK$: the processed file is written
\* with its deps line and (date, True) is returned
ValidationOk ==
    /\ run.pc = "pool"
    /\ \E d \in RunDates :
          /\ run.wk[d].st = "validate"
          /\ run' = [run EXCEPT
                        !.wk[d].st = "ok", !.wk[d].validate_calls = @ + 1,
                        !.art[d] = ArtifactFile(format_deps_comment(
                                                   get_section_dependencies(run, d)))]
    /\ UNCHANGED <<bvars, det, cch, bp, val>>

\* lines 1157-1169, 1191-1221: the validation does not hold $OK$: the next
\* attempt, or after the last one the .failed.md file and (date, False)
ValidationRejects ==
    /\ run.pc = "pool"
    /\ \E d \in RunDates :
          /\ run.wk[d].st = "validate"
          /\ IF LastAttempt(run.wk[d].attempt)
             THEN run' = [run EXCEPT !.wk[d].st = "failed", !.wk[d].validate_calls = @ + 1,
                                     !.failed_md[d] = TRUE]
             ELSE run' = [run EXCEPT !.wk[d].st = "process", !.wk[d].validate_calls = @ + 1,
                                     !.wk[d].attempt = @ + 1]
    /\ UNCHANGED <<bvars, det, cch, bp, val>>

\* an LLM call of _process_section raises: the future holds the exception
SectionRaises ==
    /\ run.pc = "pool"
    /\ \E d \in Running(run) :
          run' = [run EXCEPT
                     !.wk[d].st = "raised",
                     !.wk[d].process_calls = IF run.wk[d].st = "process" THEN @ + 1 ELSE @,
                     !.wk[d].validate_calls = IF run.wk[d].st = "validate" THEN @ + 1 ELSE @]
    /\ UNCHANGED <<bvars, det, cch, bp, val>>

\* lines 506-520: as_completed hands a completed future to the main thread,
\* which records (date, False) and exceptions in failed
CollectResult ==
    /\ run.pc = "pool"
    /\ \E d \in Completed(run) \ run.collected :
          run' = [run EXCEPT !.collected = @ \cup {d},
                             !.failed = IF run.wk[d].st = "ok" THEN @ ELSE Append(@, d)]
    /\ UNCHANGED <<bvars, det, cch, bp, val>>

\* lines 506-553: every future was handed over; the pool is left and the run
\* goes on to _build_health_timeline
PoolExit ==
    /\ run.pc = "pool"
    /\ run.collected = run.submitted
    /\ run' = [run EXCEPT !.pc = "build"]
    /\ UNCHANGED <<bvars, det, cch, bp, val>>

\* lines 553-558: the timeline build returns and the status is set
BuildReturns ==
    /\ run.pc = "build"
    /\ run' = [run EXCEPT !.pc = "done",
                          !.status = IF run.failed = <<>> THEN "completed"
                                     ELSE "completed_with_errors"]
    /\ UNCHANGED <<bvars, det, cch, bp, val>>

\* line 553: the timeline build raises (an Extractor failure): run is left
\* with the exception before the status is set
BuildRaises ==
    /\ run.pc = "build"
    /\ run' = [run EXCEPT !.pc = "raised"]
    /\ UNCHANGED <<bvars, det, cch, bp, val>>

PoolNext ==
    \/ PoolSubmit \/ WorkerStarts \/ LlmProcessReturns \/ ValidationOk \/ ValidationRejects
    \/ SectionRaises \/ CollectResult \/ PoolExit \/ BuildReturns \/ BuildRaises

SpecPool == PoolInit /\ [][PoolNext]_vars

\* once the futures are submitted the executor runs every queued future when
\* a worker is free, an LLM call returns or raises, as_completed hands over
\* every completed future, and the main thread goes on after the pool
SpecPoolFair ==
    /\ SpecPool
    /\ WF_vars(WorkerStarts)
    /\ WF_vars(LlmProcessReturns \/ SectionRaises)
    /\ WF_vars(ValidationRejects \/ SectionRaises \/ ValidationOk)
    /\ WF_vars(CollectResult)
    /\ WF_vars(PoolExit)
    /\ WF_vars(BuildReturns \/ BuildRaises)

\* ------------------------------------- the output of _process_timeline_batch
MaxResponseLines == 2
MaxKeptRows == 1

\* a line of the Extractor's response: an opening fence "```csv", a closing
\* fence "```", the header "Date,EpisodeID,...", or a row of the fields the
\* Builder's tests exercise
ResponseRow ==
    [kind : {"row"}, date : {"2024-01-15", "2024-01-99"}, episode : {"ep-001", "INVALID"},
     category : {"supplement", "invalid_category"}, event : {"started", "invalid_event"}]
ResponseLines == ResponseRow \cup {[kind |-> "fence_csv"], [kind |-> "fence"], [kind |-> "header"]}
GoodRow ==
    [kind |-> "row", date |-> "2024-01-15", episode |-> "ep-001",
     category |-> "supplement", event |-> "started"]

\* lines 1094-1103: a response that starts with a fence loses its first line
\* and, when its last line is "```", that line too
StripCodeBlock(lines) ==
    IF lines # <<>> /\ lines[1].kind \in {"fence_csv", "fence"}
    THEN LET rest == Tail(lines)
         IN  IF rest # <<>> /\ rest[Len(rest)].kind = "fence"
             THEN SubSeq(rest, 1, Len(rest) - 1) ELSE rest
    ELSE lines

\* lines 1105-1108: a first line that starts with "Date," is removed
StripHeader(lines) ==
    IF lines # <<>> /\ lines[1].kind = "header" THEN Tail(lines) ELSE lines

\* _process_timeline_batch, lines 1094-1110: what is returned of a response
process_timeline_batch(response) == StripHeader(StripCodeBlock(response))

\* _build_health_timeline, lines 730-732 (and 698-701): the returned rows are
\* appended when there are any
AppendNewRows(timeline_content, new_rows) ==
    IF new_rows # <<>> THEN timeline_content \o new_rows ELSE timeline_content

OutParked == [pc |-> "parked", timeline_content |-> <<>>, response |-> <<>>, new_rows |-> <<>>]

\* the Builder about to call the Extractor, with the rows kept so far
OutputInit ==
    /\ BuilderInit
    /\ det = DetParked
    /\ cch = CchParked
    /\ run = RunParked
    /\ bp = BpParked
    /\ \E n \in 0..MaxKeptRows :
          val = [OutParked EXCEPT !.pc = "call", !.timeline_content = [i \in 1..n |-> GoodRow]]

\* lines 1085-1092: the Extractor answers
ExtractorResponds ==
    /\ val.pc = "call"
    /\ \E n \in 0..MaxResponseLines :
          \E response \in [1..n -> ResponseLines] :
             val' = [val EXCEPT !.pc = "respond", !.response = response]
    /\ UNCHANGED <<bvars, det, cch, run, bp>>

\* lines 1094-1110: the response is cleaned and returned
ProcessTimelineBatch ==
    /\ val.pc = "respond"
    /\ val' = [val EXCEPT !.pc = "returned", !.new_rows = process_timeline_batch(val.response)]
    /\ UNCHANGED <<bvars, det, cch, run, bp>>

\* lines 730-732: the Builder appends what was returned
AppendBatchOutput ==
    /\ val.pc = "returned"
    /\ val' = [val EXCEPT !.pc = "appended",
                          !.timeline_content = AppendNewRows(val.timeline_content, val.new_rows)]
    /\ UNCHANGED <<bvars, det, cch, run, bp>>

OutputNext == ExtractorResponds \/ ProcessTimelineBatch \/ AppendBatchOutput

SpecOutput == OutputInit /\ [][OutputNext]_vars

\* ------------------------------- main: the sections of run, then the build
\* the texts of processed files: those the sections of the journal are
\* processed to, and the one of a date with labs and no section, which holds
\* the labs only
JournalTexts == 1..(MaxContent - 1)
LabsOnlyText == MaxContent

\* the mutant of ProcessedAfterSections: the processed file of a date without
\* section and without labs is removed
ProcessedAfterSectionsPruned(r, dir) ==
    LET placeholders == create_placeholder_sections(r)
        to_process == sections_to_process(r, placeholders)
    IN  [d \in Dates |->
            IF d \notin RunDates THEN dir[d]
            ELSE IF d \in to_process THEN r.journal[d]
            ELSE IF placeholders[d] # r.art[d] THEN LabsOnlyText
            ELSE IF r.journal[d] = 0 /\ r.labs[d] = 0 THEN 0
            ELSE dir[d]]

\* run, lines 468-520, when every stale section is accepted: the texts of
\* the processed files after _create_placeholder_sections and the pool
ProcessedAfterSections(r, dir) ==
    LET placeholders == create_placeholder_sections(r)
        to_process == sections_to_process(r, placeholders)
    IN  [d \in Dates |->
            IF d \notin RunDates THEN dir[d]
            ELSE IF d \in to_process THEN r.journal[d]
            ELSE IF placeholders[d] # r.art[d] THEN LabsOnlyText
            ELSE dir[d]]

\* the first lines of the processed files after the same steps
ArtifactsAfterSections(r) ==
    LET placeholders == create_placeholder_sections(r)
        to_process == sections_to_process(r, placeholders)
    IN  [d \in RunDates |->
            IF d \in to_process
            THEN ArtifactFile(format_deps_comment(get_section_dependencies(r, d)))
            ELSE placeholders[d]]

MainParked ==
    [pc |-> "parked", journal |-> [d \in RunDates |-> 0], labs |-> [d \in RunDates |-> 0],
     process_prompt |-> 1, validate_prompt |-> 1,
     art |-> [d \in RunDates |-> NoArtifact],
     timeline_prompt |-> 1, status_model_id |-> 1,
     changes |-> {}, force |-> FALSE, last_ok |-> FALSE]

\* a journal and labs, nothing processed and no timeline yet
MainInit ==
    /\ BuilderInit
    /\ det = DetParked
    /\ cch = CchParked
    /\ bp = BpParked
    /\ val = ValParked
    /\ \E journal \in [RunDates -> {0} \cup JournalTexts], labs \in [RunDates -> {0, 1}] :
          run = [MainParked EXCEPT !.pc = "idle", !.journal = journal, !.labs = labs]

\* main, lines 1648-1687, and run, lines 460-520: with --force-reprocess the
\* generated files and the timeline are deleted first; then the placeholders
\* are written and the stale sections processed
RunSections ==
    /\ run.pc = "idle"
    /\ pc = "idle"
    /\ \E force \in BOOLEAN :
          LET r == IF force THEN [run EXCEPT !.art = [d \in RunDates |-> NoArtifact]] ELSE run
              dir == IF force THEN [d \in Dates |-> 0] ELSE entriesDir
          IN  /\ entriesDir' = ProcessedAfterSections(r, dir)
              /\ timelineFile' = IF force THEN NoFile ELSE timelineFile
              /\ run' = [run EXCEPT !.pc = "build", !.force = force,
                                    !.art = ArtifactsAfterSections(r)]
    /\ UNCHANGED <<pc, bld, log, prov, det, cch, bp, val>>

\* run, line 553: _build_health_timeline
BuildTimeline ==
    /\ run.pc = "build"
    /\ \/ BuildEmpty
       \/ BuildFull
       \/ BuildNoop
       \/ BuildAppend
       \/ BuildRebuild
       \/ ExtractorReturns
       \/ ExtractorFails
    /\ UNCHANGED <<det, cch, run, bp, val>>

\* the build returned or raised: main is over
MainEnds ==
    /\ run.pc = "build"
    /\ pc = "done"
    /\ pc' = "idle"
    /\ bld' = NoBuild
    /\ log' = NoLog
    /\ run' = [run EXCEPT !.pc = "idle", !.changes = {}, !.force = FALSE,
                          !.last_ok = (log.status = "ok")]
    /\ UNCHANGED <<entriesDir, timelineFile, prov, det, cch, bp, val>>

\* between runs a dated section is removed from the journal
RemoveSection ==
    /\ run.pc = "idle"
    /\ \E d \in RunDates :
          /\ run.journal[d] # 0
          /\ run' = [run EXCEPT !.journal[d] = 0, !.changes = @ \cup {<<"removed", d>>}]
    /\ UNCHANGED <<bvars, det, cch, bp, val>>

\* between runs a dated section is written or rewritten
EditSection ==
    /\ run.pc = "idle"
    /\ \E d \in RunDates, c \in JournalTexts :
          /\ run.journal[d] # c
          /\ run' = [run EXCEPT !.journal[d] = c, !.changes = @ \cup {<<"edited", d>>}]
    /\ UNCHANGED <<bvars, det, cch, bp, val>>

MainNext == RunSections \/ BuildTimeline \/ MainEnds \/ RemoveSection \/ EditSection

SpecMain == MainInit /\ [][MainNext]_vars

MaxPrompt == 2
\* between runs the prompt update_timeline.system_prompt is rewritten
ChangeTimelinePrompt ==
    /\ run.pc = "idle"
    /\ \E p \in 1..MaxPrompt :
          /\ p # run.timeline_prompt
          /\ run' = [run EXCEPT !.timeline_prompt = p, !.changes = @ \cup {<<"prompt", 0>>}]
    /\ UNCHANGED <<bvars, det, cch, bp, val>>

\* between runs the model of the Extractor, status_model_id, is set to another
ChangeStatusModel ==
    /\ run.pc = "idle"
    /\ \E m \in 1..MaxPrompt :
          /\ m # run.status_model_id
          /\ run' = [run EXCEPT !.status_model_id = m, !.changes = @ \cup {<<"model", 0>>}]
    /\ UNCHANGED <<bvars, det, cch, bp, val>>

ExtractorNext ==
    \/ RunSections \/ BuildTimeline \/ MainEnds \/ EditSection
    \/ ChangeTimelinePrompt \/ ChangeStatusModel

\* runs between which sections are written and the Extractor's prompt and
\* model are changed
SpecExtractor == MainInit /\ [][ExtractorNext]_vars

Init ==
    /\ BuilderInit
    /\ det = DetParked
    /\ cch = CchParked
    /\ run = RunParked
    /\ bp = BpParked
    /\ val = ValParked

Next ==
    \/ BuildEmpty /\ UNCHANGED <<det, cch, run, bp, val>>
    \/ BuildFull /\ UNCHANGED <<det, cch, run, bp, val>>
    \/ BuildNoop /\ UNCHANGED <<det, cch, run, bp, val>>
    \/ BuildAppend /\ UNCHANGED <<det, cch, run, bp, val>>
    \/ BuildRebuild /\ UNCHANGED <<det, cch, run, bp, val>>
    \/ ExtractorReturns /\ UNCHANGED <<det, cch, run, bp, val>>
    \/ ExtractorFails /\ UNCHANGED <<det, cch, run, bp, val>>
    \/ Ack /\ UNCHANGED <<det, cch, run, bp, val>>
    \/ WriteEntry /\ UNCHANGED <<det, cch, run, bp, val>>
    \/ DeleteEntry /\ UNCHANGED <<det, cch, run, bp, val>>
    \/ DeleteTimeline /\ UNCHANGED <<det, cch, run, bp, val>>
    \/ CorruptHeader /\ UNCHANGED <<det, cch, run, bp, val>>
    \/ LegacyHeader /\ UNCHANGED <<det, cch, run, bp, val>>
    \/ DropHashes /\ UNCHANGED <<det, cch, run, bp, val>>

\* the builder and its environment
Spec == Init /\ [][Next]_vars

\* the builder over entries that are written and deleted between builds, the
\* timeline file being touched by the builder only
ExtractorAnswers == (ExtractorFails \/ ExtractorReturns) /\ UNCHANGED <<det, cch, run, bp, val>>
LoopNext ==
    \/ BuildEmpty /\ UNCHANGED <<det, cch, run, bp, val>>
    \/ BuildFull /\ UNCHANGED <<det, cch, run, bp, val>>
    \/ BuildNoop /\ UNCHANGED <<det, cch, run, bp, val>>
    \/ BuildAppend /\ UNCHANGED <<det, cch, run, bp, val>>
    \/ BuildRebuild /\ UNCHANGED <<det, cch, run, bp, val>>
    \/ ExtractorAnswers
    \/ Ack /\ UNCHANGED <<det, cch, run, bp, val>>
    \/ WriteEntry /\ UNCHANGED <<det, cch, run, bp, val>>
    \/ DeleteEntry /\ UNCHANGED <<det, cch, run, bp, val>>

\* every Extractor call of the batch loop returns or raises
SpecLoopFair == Init /\ [][LoopNext]_vars /\ WF_vars(ExtractorAnswers)

\* _find_earliest_change over every stored header and entry set of the bounds
DetectInit ==
    /\ BuilderInit
    /\ det \in DetectArgs
    /\ cch = CchParked
    /\ run = RunParked
    /\ bp = BpParked
    /\ val = ValParked

SpecDetect == DetectInit /\ [][Detect]_vars

\* one cached artifact: written, edited by hand, damaged and checked
SpecCache == Init /\ [][CacheNext]_vars

\* the pipeline's section loop over several runs and edits of its inputs
RunInit ==
    /\ BuilderInit
    /\ det = DetParked
    /\ cch = CchParked
    /\ run = RunIdle
    /\ bp = BpParked
    /\ val = ValParked

SpecRun == RunInit /\ [][RunNext]_vars

\* ------------------------------------------------------ claims: the builder
RECURSIVE FlattenBatches(_)
FlattenBatches(calls) ==
    IF calls = <<>> THEN <<>> ELSE calls[1].batch \o FlattenBatches(Tail(calls))

BuildOk == pc = "done" /\ log.status = "ok"

\* the build started from a timeline exactly as a successful build saved it
FromSavedTimeline == log.provBefore.ok /\ log.fileBefore.kind = "file"

\* C1: a build that starts from the timeline a successful build (full, rebuild or
\* append) saved, with the same set of entries, is classified no-op, calls the
\* Extractor zero times, leaves the file as it is and returns the saved content.
C1_Idempotent ==
    (pc = "done" /\ FromSavedTimeline /\ log.ents = log.provBefore.ents)
        => /\ log.mode = "noop"
           /\ log.status = "ok"
           /\ log.calls = <<>>
           /\ timelineFile = log.fileBefore
           /\ log.ret = log.provBefore.content

C1_Witness ==
    /\ pc = "done" /\ log.mode = "noop"
    /\ log.provBefore.ok /\ log.provBefore.mode = "append"
    /\ log.ents = log.provBefore.ents
    /\ Len(log.ret.rows) >= 2

\* C2: when the Extractor fails on a batch the build aborts and the timeline file
\* (header lines and rows) is as it was before the build; rows of the batches that
\* had succeeded are not persisted.
C2_FailureKeepsFile ==
    (pc = "done" /\ log.status = "failed")
        => /\ timelineFile = log.fileBefore
           /\ prov = log.provBefore

C2_Witness ==
    /\ pc = "done" /\ log.status = "failed"
    /\ log.mode = "rebuild"
    /\ Len(log.calls) >= 2
    /\ log.returned # <<>>
    /\ log.fileBefore.kind = "file"

ChangedDates == {d \in Dates : log.ents[d] # log.provBefore.ents[d]}

\* exactly one entry, not the last one, was edited since the timeline was saved
EditedOnly(dk) ==
    /\ FromSavedTimeline
    /\ ChangedDates = {dk}
    /\ log.ents[dk] # 0 /\ log.provBefore.ents[dk] # 0
    /\ \E d \in Dates : d > dk /\ log.ents[d] # 0

\* C4: after entry dk (k < n) is edited, the build keeps the previous rows dated
\* before dk unchanged and in order, discards the previous rows dated dk or
\* later, and re-submits exactly the entries dated >= dk.
C4_EditMinimalRebuild ==
    \A dk \in Dates :
        (BuildOk /\ EditedOnly(dk))
            => LET old == log.fileBefore.content.rows
                   before == SelectSeq(old, LAMBDA r : r.date < dk)
               IN  /\ log.mode = "rebuild"
                   /\ log.calls # <<>>
                   /\ log.calls[1].context.rows = before
                   /\ timelineFile.content.rows = before \o log.returned
                   /\ FlattenBatches(log.calls)
                        = SelectSeq(get_chronological_entries(log.ents),
                                    LAMBDA d : d >= dk)

C4_Witness ==
    /\ BuildOk /\ EditedOnly(2)
    /\ \E i \in 1..Len(log.fileBefore.content.rows) :
          log.fileBefore.content.rows[i].date = 1
    /\ \E i \in 1..Len(log.fileBefore.content.rows) :
          log.fileBefore.content.rows[i].date = 3
    /\ log.returned # <<>>

\* the timeline file is missing, its first line is malformed, or it holds no
\* stored fingerprint (no, or an empty, HASHES line; the legacy first line)
NoStoredState(f) ==
    \/ f.kind = "missing"
    \/ f.line1.kind = "malformed"
    \/ f.line1.kind = "legacy"
    \/ ~f.line2.present
    \/ f.line2.pairs = <<>>

\* C10: from a missing timeline, a malformed first header line or an absent or
\* empty fingerprint map the build does a full rebuild: the first Extractor call
\* gets the empty timeline and seed 1, every current entry is handed to the
\* Extractor and no previous row is retained.
C10_FullRebuildFallback ==
    (pc \in {"extract", "done"} /\ log.mode # "empty" /\ NoStoredState(log.fileBefore))
        => /\ log.mode = "full"
           /\ log.calls # <<>>
           /\ log.calls[1].context = get_empty_timeline
           /\ log.calls[1].seed = 1
           /\ log.kept = <<>>
           /\ (BuildOk =>
                 /\ FlattenBatches(log.calls) = get_chronological_entries(log.ents)
                 /\ timelineFile.content.rows = log.returned)

C10_Witness ==
    /\ BuildOk /\ log.mode = "full"
    /\ log.fileBefore.kind = "file"
    /\ log.fileBefore.line1.kind = "malformed"
    /\ log.fileBefore.line2.present /\ log.fileBefore.line2.pairs # <<>>
    /\ log.fileBefore.content.rows # <<>>
    /\ log.returned # <<>>

\* ----------------------------------------------- claims: the change detector
DetCurrent == {d \in Dates : det.ents[d] # 0}
DetStored == {d \in Dates : det.hashes[d] # 0}
\* stored entries missing from the current set
DetDeleted == DetStored \ DetCurrent
\* current entries whose fingerprint differs from the stored one
DetEdited == {d \in DetCurrent \cap DetStored : hash_content(det.ents[d]) # det.hashes[d]}
\* new entries dated on or before processedThrough
DetInserted == {d \in DetCurrent \ DetStored : d <= det.pt}
DetDisturbed == DetDeleted \cup DetEdited \cup DetInserted

\* C5: whenever an entry was deleted, edited or inserted on or before
\* processedThrough, the detector returns rebuild(fromDate) with fromDate the
\* minimum date over all of them, also when entries after processedThrough exist.
C5_RebuildFromEarliest ==
    (det.out # DetUnset /\ DetDisturbed # {})
        => /\ det.out.kind = "rebuild"
           /\ det.out.date \in DetDisturbed
           /\ \A d \in DetDisturbed : det.out.date <= d

C5_Witness ==
    /\ det.out.kind = "rebuild"
    /\ DetDeleted # {} /\ DetEdited # {} /\ DetInserted # {}
    /\ \E d \in DetCurrent : d > det.pt
    /\ det.out.date < Max(DetDisturbed)

\* C6: no-op exactly when every current entry's fingerprint equals the stored
\* one, no stored entry is missing and no entry is dated after processedThrough;
\* append exactly when all stored fingerprints still match, no new entry is
\* dated on or before processedThrough and some entry is dated after it; the
\* result is one of no-op, append, rebuild(date).
C6_NoopAppendExactly ==
    (det.out # DetUnset)
        => /\ (det.out.kind = "none") <=>
                 /\ \A d \in DetCurrent : det.hashes[d] = hash_content(det.ents[d])
                 /\ \A d \in DetStored : d \in DetCurrent
                 /\ ~\E d \in DetCurrent : d > det.pt
           /\ (det.out.kind = "append") <=>
                 /\ \A d \in DetStored :
                       d \in DetCurrent /\ det.hashes[d] = hash_content(det.ents[d])
                 /\ ~\E d \in DetCurrent \ DetStored : d <= det.pt
                 /\ \E d \in DetCurrent : d > det.pt
           /\ det.out.kind \in {"none", "append", "rebuild"}
           /\ (det.out.kind = "rebuild") <=> (det.out.date \in Dates)

C6_Witness ==
    /\ det.out.kind = "append"
    /\ Cardinality(DetStored) >= 2
    /\ \E d \in DetCurrent \cap DetStored : d > det.pt

\* ---------------------------------------------- claims: dependency tracking
Checked == cch.checked
\* exactly one key of the written descriptor has another value in the expected one
OneValueChanged(written, expected) ==
    /\ DictKeys(written) = DictKeys(expected)
    /\ Cardinality({k \in DictKeys(written) : DictGet(written, k) # DictGet(expected, k)}) = 1

StoredDeps == IF cch.art.kind = "file" THEN parse_deps_comment(cch.art.first) ELSE {}

EpisodeIdMax(content) ==
    IF content.rows = <<>> THEN 0
    ELSE Max({content.rows[i].ep : i \in 1..Len(content.rows)})

\* C11: in every Extractor call of every build mode the seed is lastEpisodeNum + 1,
\* lastEpisodeNum being the highest episode number of the rows of the timeline
\* text passed as context to that call (0 if it has no row).
C11_SeedFollowsContext ==
    \A k \in 1..Len(log.calls) :
        log.calls[k].seed = EpisodeIdMax(log.calls[k].context) + 1

\* C11, the part that holds: the seed is greater than the EpisodeID of every row
\* of the context.
C11_SeedAboveContext ==
    \A k \in 1..Len(log.calls) :
        log.calls[k].seed > EpisodeIdMax(log.calls[k].context)

\* a build that wrote the timeline file has returned
BuildWrote == BuildOk /\ log.mode \in {"full", "append", "rebuild"}

\* C12: after every build that writes the Timeline, processedThrough is the
\* maximum date of the current entries, the fingerprint map holds exactly one
\* pair for every current entry, with the hash of its current content, and
\* lastEpisodeNum is the highest episode number among the persisted rows.
C12_HeaderMatchesBuild ==
    BuildWrote
        => /\ timelineFile.kind = "file"
           /\ timelineFile.line1.kind = "new"
           /\ timelineFile.line1.pt = Max({d \in Dates : log.ents[d] # 0})
           /\ timelineFile.line2.present
           /\ Len(timelineFile.line2.pairs) = Cardinality({d \in Dates : log.ents[d] # 0})
           /\ \A d \in Dates :
                 parse_hashes_line(timelineFile.line2.pairs)[d] =
                    (IF log.ents[d] # 0 THEN hash_content(log.ents[d]) ELSE 0)
           /\ timelineFile.line1.lastEp = EpisodeIdMax(timelineFile.content)

\* C12, the part that holds: processedThrough and the fingerprint map.
C12_DatesAndHashes ==
    BuildWrote
        => /\ timelineFile.kind = "file"
           /\ timelineFile.line1.kind = "new"
           /\ timelineFile.line1.pt = Max({d \in Dates : log.ents[d] # 0})
           /\ timelineFile.line2.present
           /\ Len(timelineFile.line2.pairs) = Cardinality({d \in Dates : log.ents[d] # 0})
           /\ \A d \in Dates :
                 parse_hashes_line(timelineFile.line2.pairs)[d] =
                    (IF log.ents[d] # 0 THEN hash_content(log.ents[d]) ELSE 0)

\* C17: the last-episode-number scan takes the maximum over the EpisodeID column
\* only (a number named in RelatedEpisode or Details does not raise it) and is 0
\* for a timeline that has a header and no rows.
C17_ScanEpisodeIdColumnOnly ==
    /\ get_last_episode_num(get_empty_timeline) = 0
    /\ pc \in {"extract", "done"}
          => get_last_episode_num(bld.timeline_content) = EpisodeIdMax(bld.timeline_content)

\* ------------------------------------------------ claims: batch sequencing
RECURSIVE ConcatAll(_)
ConcatAll(seqs) == IF seqs = <<>> THEN <<>> ELSE seqs[1] \o ConcatAll(Tail(seqs))

\* C13: the Extractor calls of a build are issued one at a time, in ascending
\* entry-date order, and the context of the k-th call is the retained rows
\* followed by the rows the calls 1..k-1 returned, in call order; a call is
\* issued only after the previous call's rows were appended.
C13_StrictlySequential ==
    /\ Len(log.answers) <= Len(log.calls)
    /\ Len(log.calls) <= Len(log.answers) + 1
    /\ (Len(log.calls) = Len(log.answers) + 1) <=> (pc = "extract" \/ log.status = "failed")
    /\ \A k \in 1..Len(log.calls) :
          /\ log.calls[k].batch # <<>>
          /\ log.calls[k].context.rows =
                log.kept \o ConcatAll(SubSeq(log.answers, 1, k - 1))
    /\ LET ds == FlattenBatches(log.calls)
       IN  \A i \in 1..(Len(ds) - 1) : ds[i] < ds[i + 1]

C13_Witness ==
    /\ pc = "extract"
    /\ log.mode = "rebuild"
    /\ log.kept # <<>>
    /\ Len(log.calls) = 2
    /\ log.answers[1] # <<>>

\* ---------------------------------------------- claims: the batch planner
\* the characters of the entries a..b
RECURSIVE RangeChars(_, _, _)
RangeChars(lens, a, b) ==
    IF a > b THEN 0
    ELSE IF a = b THEN lens[a]
    ELSE RangeChars(lens, a, (a + b) \div 2) + RangeChars(lens, ((a + b) \div 2) + 1, b)

\* the input budget in characters: capacity minus the constant overhead, the
\* timeline's tokens, the output allowance and the safety margin
InputBudgetChars(timeline_size) ==
    (CONTEXT_LIMIT - SYSTEM_PROMPT_TOKENS - (timeline_size \div CHARS_PER_TOKEN)
        - MAX_OUTPUT_TOKENS - SAFETY_MARGIN) * CHARS_PER_TOKEN

\* the first j entries stay within the input and the output budget
PrefixFits(lens, j, timeline_size) ==
    /\ RangeChars(lens, 1, j) <= InputBudgetChars(timeline_size)
    /\ j * OUTPUT_TOKENS_PER_ENTRY <= MAX_OUTPUT_TOKENS - OUTPUT_BUFFER

\* the length of the longest prefix that fits
LongestPrefix(lens, timeline_size) ==
    Max({j \in 0..Len(lens) : j = 0 \/ PrefixFits(lens, j, timeline_size)})

\* C14: the batch size is max(1, k), k the length of the longest prefix of the
\* remaining entries that stays within the input budget and the output budget;
\* it is at least 1 also when the first entry alone exceeds the budget or the
\* budget is zero or negative, and at most the number of remaining entries when
\* there is at least one.
C14_BatchSize ==
    bp.pc = "done"
        => /\ bp.out = Max({1, LongestPrefix(bp.lens, bp.timeline_size)})
           /\ bp.out >= 1
           /\ Len(bp.lens) >= 1 => bp.out <= Len(bp.lens)
           /\ Len(bp.lens) <= MaxBatchEntries
                 => bp.out = calculate_batch_size(bp.lens, bp.timeline_size)

C14_Witness ==
    /\ bp.pc = "done"
    /\ Len(bp.lens) >= 2
    /\ bp.lens[1] > InputBudgetChars(bp.timeline_size)
    /\ InputBudgetChars(bp.timeline_size) <= 0
    /\ bp.out = 1

\* the lengths of the texts of the entries not yet consumed by the build
RemainingLens(b) ==
    LET rest == Slice(b.to_process, b.batch_start, Len(b.to_process))
    IN  [i \in 1..Len(rest) |-> ContentLen(b.ents[rest[i]])]

\* C15: no Extractor call of an append receives more entries than
\* _calculate_batch_size returns for the remaining entries and the running
\* timeline size.
C15_AppendBatched ==
    (pc = "extract" /\ bld.mode = "append")
        => Len(bld.batch)
              <= calculate_batch_size(RemainingLens(bld), TimelineLen(bld.timeline_content))

\* the same bound on the calls of the two rebuild loops
C15_RebuildBatched ==
    (pc = "extract" /\ bld.mode # "append")
        => Len(bld.batch)
              = calculate_batch_size(RemainingLens(bld), TimelineLen(bld.timeline_content))

\* the scenario's three dates: 2024-01-15, 2024-01-16, 2024-01-17
Jan15 == Min(Dates)
Jan16 == Jan15 + 1
Jan17 == Jan16 + 1

\* stored map {2024-01-15: abc, 2024-01-16: def}, current entries
\* {2024-01-15: abc, 2024-01-17: ghi}
DeletedAndNew ==
    /\ det.ents[Jan15] # 0 /\ det.hashes[Jan15] = hash_content(det.ents[Jan15])
    /\ det.ents[Jan16] = 0 /\ det.hashes[Jan16] # 0
    /\ det.ents[Jan17] # 0 /\ det.hashes[Jan17] = 0
    /\ \A d \in Dates \ {Jan15, Jan16, Jan17} : det.ents[d] = 0 /\ det.hashes[d] = 0

\* C16 as stated: with 2024-01-16 deleted and 2024-01-17 new, the detector
\* returns rebuild(2024-01-15).
C16_RebuildFromRetained ==
    (DeletedAndNew /\ det.out # DetUnset)
        => det.out = [kind |-> "rebuild", date |-> Jan15]

\* C16: with 2024-01-16 deleted and 2024-01-17 new, the detector returns
\* rebuild(2024-01-16), the date of the deleted entry; so neither no-op nor
\* append nor a rebuild date later than 2024-01-16.
C16_RebuildFromDeleted ==
    (DeletedAndNew /\ det.out # DetUnset)
        => /\ det.out = [kind |-> "rebuild", date |-> Jan16]
           /\ det.out.kind \notin {"none", "append"}
           /\ det.out.date <= Jan16

C16_Witness ==
    /\ DeletedAndNew
    /\ det.pt = Jan16
    /\ det.out.kind = "rebuild"

\* C18: every timeline file the Builder persisted has two metadata lines and
\* then the header row Date, EpisodeID, Item, Category, Event, RelatedEpisode,
\* Details, also after a full rebuild from the empty timeline.
C18_SevenColumnHeader ==
    BuildWrote
        => /\ timelineFile.kind = "file"
           /\ timelineFile.line1.kind = "new"
           /\ timelineFile.line2.present
           /\ timelineFile.content.header = TimelineColumns

\* what does hold of a persisted file: the two metadata lines are there, and
\* the structural check, which reads no more of the header row than "Date,",
\* has no finding
C18_MetadataAndShape ==
    BuildWrote
        => /\ timelineFile.kind = "file"
           /\ timelineFile.line1.kind = "new"
           /\ timelineFile.line2.present
           /\ timelineFile.content.header = get_empty_timeline.header
           /\ validate_csv_structure(timelineFile) = <<>>

\* the distinct Item values among the rows of an episode, an empty field
\* being a value
ItemsOfEpisode(rows, ep) == {rows[k].item : k \in {j \in 1..Len(rows) : rows[j].ep = ep}}
ReusedEpisodes(rows) == {ep \in 1..MaxValEp : Cardinality(ItemsOfEpisode(rows, ep)) > 1}
ItemFindings(errors, ep) ==
    {k \in 1..Len(errors) : errors[k].kind = "items" /\ errors[k].from = ep}

\* C19: validate_episode_continuity reports exactly one finding for each
\* episodeId whose rows carry more than one distinct item value, and none for
\* an episodeId whose rows all carry the same item.
C19_OneFindingPerReusedEpisode ==
    val.pc \in {"validated", "raised", "reported"}
        => /\ ~val.raised
           /\ \A ep \in 1..MaxValEp :
                 Cardinality(ItemFindings(val.errors, ep))
                    = IF ep \in ReusedEpisodes(val.rows) THEN 1 ELSE 0

\* the part of C19 that holds: whenever the check returns its list
C19_WhenReturned ==
    val.pc \in {"validated", "reported"}
        => \A ep \in 1..MaxValEp :
              Cardinality(ItemFindings(val.errors, ep))
                 = IF ep \in ReusedEpisodes(val.rows) THEN 1 ELSE 0

\* the check returns its list for every timeline without an empty Item
C19_ReturnsWithItems ==
    (val.pc # "start" /\ val.pc # "parked"
        /\ \A k \in 1..Len(val.rows) : val.rows[k].item # 0)
        => ~val.raised

\* the pairs of neighbours in the sorted distinct episode numbers that differ
\* by more than 1
DistinctNums(rows) == {rows[k].ep : k \in 1..Len(rows)} \ {0}
GapPairs(rows) ==
    {p \in DistinctNums(rows) \X DistinctNums(rows) :
        /\ p[2] - p[1] > 1
        /\ ~\E n \in DistinctNums(rows) : p[1] < n /\ n < p[2]}
GapFindings(errors) == {k \in 1..Len(errors) : errors[k].kind = "gap"}
OneFindingPerGap ==
    /\ \A p \in GapPairs(val.rows) :
          Cardinality({k \in GapFindings(val.errors) :
                          val.errors[k].from = p[1] /\ val.errors[k].to = p[2]}) = 1
    /\ Cardinality(GapFindings(val.errors)) = Cardinality(GapPairs(val.rows))

Dangling(rows) ==
    {k \in 1..Len(rows) :
        rows[k].rel # 0 /\ ~\E j \in 1..Len(rows) : rows[j].ep = rows[k].rel}

\* C21: validate_related_episodes reports exactly one finding, naming the
\* missing id, for each row whose relatedEpisode is non-empty and equals no
\* row's episodeId, and none for the other rows.
C21_OneFindingPerDangling ==
    val.pc \in {"validated", "reported"}
        => /\ \A k \in 1..Len(val.rows) :
                 Cardinality({e \in 1..Len(val.errors) : val.errors[e].line = k + 1})
                    = IF k \in Dangling(val.rows) THEN 1 ELSE 0
           /\ \A e \in 1..Len(val.errors) :
                 /\ val.errors[e].line - 1 \in Dangling(val.rows)
                 /\ val.errors[e].related = val.rows[val.errors[e].line - 1].rel
           /\ Len(val.errors) = Cardinality(Dangling(val.rows))

\* one dangling reference among rows with an empty and with a resolved one
C21_Witness ==
    /\ val.pc = "reported"
    /\ Len(val.rows) = MaxValRows
    /\ Cardinality(Dangling(val.rows)) = 1
    /\ \E k \in 1..Len(val.rows) : val.rows[k].rel = 0
    /\ \E k \in 1..Len(val.rows) : val.rows[k].rel # 0 /\ k \notin Dangling(val.rows)
    /\ Len(val.errors) = 1
    /\ val.critical_errors = 0

\* the header row is there: the first line that is no comment starts "Date,"
HeaderPresent(lines) == lines # <<>> /\ StartsWithDate(lines[1])
\* the data rows: every line that is not the header row
DataRows(lines) == {k \in 1..Len(lines) : k > 1 \/ ~HeaderPresent(lines)}
ColumnFindingsAt(errors, k) ==
    {e \in 1..Len(errors) : errors[e].kind = "columns" /\ errors[e].line = k}

\* C22: validate_csv_structure reports a finding when the header row is
\* missing, and one finding for every data row whose field count is not 7,
\* also when the header is missing; a file with a header and only 7-field rows
\* yields no finding.
C22_EveryBadRowReported ==
    val.pc \in {"validated", "reported"}
        => /\ ~HeaderPresent(val.rows) => val.errors # <<>>
           /\ \A k \in DataRows(val.rows) :
                 Cardinality(ColumnFindingsAt(val.errors, k))
                    = IF Len(val.rows[k]) # ROW_COLUMNS THEN 1 ELSE 0
           /\ (HeaderPresent(val.rows)
                 /\ \A k \in DataRows(val.rows) : Len(val.rows[k]) = ROW_COLUMNS)
                 => val.errors = <<>>

\* what holds: the first line is never counted, every later line is
C22_RowsAfterFirstLine ==
    val.pc \in {"validated", "reported"}
        => /\ ~HeaderPresent(val.rows) => val.errors # <<>>
           /\ \A k \in 1..Len(val.rows) :
                 Cardinality(ColumnFindingsAt(val.errors, k))
                    = IF k > 1 /\ Len(val.rows[k]) # ROW_COLUMNS THEN 1 ELSE 0
           /\ (HeaderPresent(val.rows)
                 /\ \A k \in DataRows(val.rows) : Len(val.rows[k]) = ROW_COLUMNS)
                 => val.errors = <<>>

\* the findings that report an episode for a stack-update date
ActiveFindings(errors, d, ep) ==
    {e \in 1..Len(errors) : errors[e].kind = "active" /\ errors[e].date = d /\ errors[e].ep = ep}

\* the scenario: two supplements started on earlier dates, and on the last
\* date only a started row for a third item
StackScenario ==
    /\ Len(val.rows) = 3
    /\ \A k \in 1..3 : /\ val.rows[k].ep = k /\ val.rows[k].item = k
                       /\ val.rows[k].category = "supplement"
                       /\ val.rows[k].event = "started"
    /\ val.rows[1].date < MaxStackDate /\ val.rows[2].date < MaxStackDate
    /\ ~val.rows[1].marker /\ ~val.rows[2].marker
    /\ val.rows[3].date = MaxStackDate

\* C23: in the scenario, when the entry of the last date declares a stack
\* update in its text, both earlier supplements are reported; without a
\* declaration nothing is reported.
C23_EntryTextDeclares ==
    (val.pc = "validated" /\ StackScenario)
        => IF MaxStackDate \in val.entries
           THEN /\ ActiveFindings(val.errors, MaxStackDate, 1) # {}
                /\ ActiveFindings(val.errors, MaxStackDate, 2) # {}
           ELSE val.errors = <<>>

\* what holds in the scenario: both are reported exactly when the row of the
\* last date carries the marker in its Details, whatever the entry says
C23_MarkerInDetails ==
    (val.pc = "validated" /\ StackScenario)
        => IF val.rows[3].marker
           THEN /\ Cardinality(ActiveFindings(val.errors, MaxStackDate, 1)) = 1
                /\ Cardinality(ActiveFindings(val.errors, MaxStackDate, 2)) = 1
                /\ Len(val.errors) = 2
           ELSE val.errors = <<>>

\* the dates a stack update was declared on, and the episodes of a stack
\* category that were started before a date
UpdateDates == {val.rows[k].date : k \in {j \in 1..Len(val.rows) : val.rows[j].marker}}
StartedBefore(d) ==
    {val.rows[k].ep : k \in {j \in 1..Len(val.rows) :
                                /\ val.rows[j].date < d
                                /\ val.rows[j].category \in StackCategories
                                /\ val.rows[j].event = "started"}}
FirstRowOf(ep) == val.rows[Min({k \in 1..Len(val.rows) : val.rows[k].ep = ep})]
\* a started row for the episode's item on the date
Reaffirmed(ep, d) ==
    \E k \in 1..Len(val.rows) :
        /\ val.rows[k].date = d
        /\ val.rows[k].event = "started"
        /\ val.rows[k].item = FirstRowOf(ep).item
\* a stopped or ended row of the episode on or before the date
StoppedOrEnded(ep, d) ==
    \E k \in 1..Len(val.rows) :
        /\ val.rows[k].ep = ep
        /\ val.rows[k].event \in {"stopped", "ended"}
        /\ val.rows[k].date <= d
\* a row of the episode with the closing event of the category of its first
\* row, stopped for a supplement or medication and ended otherwise, on or
\* before the date
ClosedForCategory(ep, d) ==
    \E k \in 1..Len(val.rows) :
        /\ val.rows[k].ep = ep
        /\ val.rows[k].event
              = (IF FirstRowOf(ep).category \in {"supplement", "medication"}
                 THEN "stopped" ELSE "ended")
        /\ val.rows[k].date <= d
\* no finding reports anything but an episode started before an update date
OnlyStartedReported ==
    \A e \in 1..Len(val.errors) :
        val.errors[e].kind = "active"
            => /\ val.errors[e].date \in UpdateDates
               /\ val.errors[e].ep \in StartedBefore(val.errors[e].date)
               /\ val.errors[e].item = FirstRowOf(val.errors[e].ep).item

FreshArtifact(d) == ArtifactFile(format_deps_comment(get_section_dependencies(run, d)))
FailedCount(d) == Cardinality({i \in 1..Len(run.failed) : run.failed[i] = d})
NotOk == {d \in RunDates : run.wk[d].st \in {"failed", "raised"}}
PoolLeft == run.pc \in {"build", "done", "raised"}

\* once the pool is left every submitted section has completed, each one
\* that returned (date, True) has its processed file written, and exactly the
\* others are in failed, once each
PoolSettled ==
    PoolLeft =>
        /\ run.submitted \subseteq Completed(run)
        /\ \A d \in run.submitted :
              /\ run.wk[d].st = "ok" => run.art[d] = FreshArtifact(d) /\ FailedCount(d) = 0
              /\ d \in NotOk => FailedCount(d) = 1

C28_ThreeAttempts ==
    run.pc # "idle" =>
        \A d \in RunDates :
            LET w == run.wk[d]
            IN  /\ w.process_calls <= MAX_ATTEMPTS
                /\ w.validate_calls <= MAX_ATTEMPTS
                /\ w.st = "ok" =>
                      /\ w.process_calls = w.attempt
                      /\ w.validate_calls = w.attempt
                      /\ run.art[d] = FreshArtifact(d)
                /\ w.st # "ok" => run.art[d] = run.artAtStart[d]
                /\ run.failed_md[d] <=> w.st = "failed"
                /\ w.st = "failed" =>
                      /\ w.process_calls = MAX_ATTEMPTS
                      /\ w.validate_calls = MAX_ATTEMPTS
                      /\ d \in run.collected => FailedCount(d) = 1
                      /\ d \in sections_to_process(run, run.art)

C28_Witness ==
    /\ run.pc = "done"
    /\ \E d \in RunDates :
          /\ run.wk[d].st = "failed"
          /\ run.artAtStart[d] # NoArtifact
          /\ run.art[d] = run.artAtStart[d]
    /\ \E d \in RunDates :
          /\ run.wk[d].st = "ok"
          /\ run.wk[d].attempt = MAX_ATTEMPTS

\* a row the tests of the Builder take as valid: a date of the calendar, an
\* episode id ep-NNN, a category of the tag set and an event
WellFormedRow(line) ==
    /\ line.kind = "row"
    /\ line.date = "2024-01-15"
    /\ line.episode = "ep-001"
    /\ line.category = "supplement"
    /\ line.event = "started"
AllWellFormed(lines) == \A i \in 1..Len(lines) : WellFormedRow(lines[i])

\* C26: the rows of a batch are validated before they are appended: a batch
\* with a malformed row is a failure and none of it reaches the timeline,
\* and a batch of well-formed rows only is appended as it is
C26_MalformedNeverPersisted ==
    val.pc = "appended" =>
        /\ AllWellFormed(val.timeline_content)
        /\ AllWellFormed(val.response) =>
              val.timeline_content = SubSeq(val.timeline_content, 1,
                                            Len(val.timeline_content) - Len(val.response))
                                        \o val.response

\* what the code does: whatever is left of the response after the fences
\* and a leading header row is appended as it is
C26_AppendedAsReturned ==
    val.pc = "appended" =>
        /\ Len(val.timeline_content) >= Len(val.new_rows)
        /\ SubSeq(val.timeline_content, Len(val.timeline_content) - Len(val.new_rows) + 1,
                  Len(val.timeline_content)) = val.new_rows
        /\ AllWellFormed(val.response) => val.new_rows = val.response

LoopBuild == log.mode \in {"full", "rebuild"}
\* the entries a rebuild or full rebuild has to process: those of the
\* entries read at the start whose date is not before fromDate, ascending
EntriesToProcess ==
    LET entries == get_chronological_entries(log.ents)
        hdr == parse_timeline_header(log.fileBefore)
    IN  IF log.mode = "full" THEN entries
        ELSE SelectSeq(entries,
                       LAMBDA d : d >= find_earliest_change(log.ents, hdr[3], hdr[1]).date)
IsAscending(ds) == \A i, j \in 1..Len(ds) : i < j => ds[i] < ds[j]

BatchesCoverPrefix ==
    LoopBuild =>
        LET handed == FlattenBatches(log.calls)
        IN  /\ \A i \in 1..Len(log.calls) : log.calls[i].batch # <<>>
            /\ Len(log.calls) <= Len(EntriesToProcess)
            /\ Len(handed) <= Len(EntriesToProcess)
            /\ handed = SubSeq(EntriesToProcess, 1, Len(handed))
            /\ IsAscending(EntriesToProcess)
            /\ BuildOk => handed = EntriesToProcess

\* C27: in a rebuild or full rebuild every batch is non-empty and the
\* batches handed to the Extractor so far are, in order, a prefix of the
\* entries to process (date >= fromDate, ascending), and all of them when
\* the build returns: each is handed over once, none skipped or repeated;
\* and when every Extractor call returns the loop ends
C27_BatchLoopTerminates ==
    /\ []BatchesCoverPrefix
    /\ (pc = "extract" ~> pc = "done")

C27_Witness ==
    /\ BuildOk
    /\ log.mode = "rebuild"
    /\ Len(log.calls) >= 2
    /\ Len(EntriesToProcess) < Len(get_chronological_entries(log.ents))

\* the build of a run is over, the run before it ended with a saved
\* timeline, and since then the section of date d was removed from the
\* journal and nothing else was changed
RemovedOnly(d) ==
    /\ run.pc = "build"
    /\ pc = "done"
    /\ run.last_ok
    /\ run.changes = {<<"removed", d>>}
SectionsStep == run.pc = "idle" /\ run'.pc = "build"
KeepsProcessed == \A d \in Dates : entriesDir[d] # 0 => entriesDir'[d] # 0
RemovedStays(d) ==
    /\ entriesDir[d] # 0
    /\ log.ents[d] # 0
    /\ log.mode = "noop"
    /\ timelineFile = log.fileBefore

C29_NoRunDeletes == [][SectionsStep => KeepsProcessed]_vars

ClassOf(dir, file) ==
    LET hdr == parse_timeline_header(file)
    IN  IF get_chronological_entries(dir) = <<>> THEN "empty"
        ELSE IF hdr[3] = NoHashes THEN "full"
        ELSE LET kind == find_earliest_change(dir, hdr[3], hdr[1]).kind
             IN  IF kind = "none" THEN "noop" ELSE kind
ExtractorChanges == {<<"prompt", 0>>, <<"model", 0>>}
\* the build of a run without --force-reprocess is over, the run before it
\* ended with a saved timeline, and since then only the extraction prompt
\* or the Extractor's model were changed
ExtractorOnly ==
    /\ run.pc = "build"
    /\ pc = "done"
    /\ run.last_ok
    /\ ~run.force
    /\ run.changes # {}
    /\ run.changes \subseteq ExtractorChanges

\* C30: the build's choice is the one the entries read and the stored header
\* determine, whatever the extraction prompt and the Extractor's model are;
\* a run after a change of these alone is a no-op (or the empty build, when
\* there is no entry), calls the Extractor not once and leaves the timeline
\* file as it was
C30_ChoiceIgnoresExtractor ==
    /\ log.mode # "none" => log.mode = ClassOf(log.ents, log.fileBefore)
    /\ ExtractorOnly =>
          /\ log.mode \in {"noop", "empty"}
          /\ log.calls = <<>>
          /\ log.status = "ok"
          /\ timelineFile = log.fileBefore

C30_Witness ==
    /\ ExtractorOnly
    /\ run.changes = ExtractorChanges
    /\ log.mode = "noop"
    /\ timelineFile.kind = "file"
    /\ timelineFile.content.rows # <<>>

====
